---------------------------- MODULE Spec2Model ----------------------------
(***************************************************************************)
(* Traffic-count homologation pipeline (Server-Web-Peru).                  *)
(*                                                                         *)
(* Stages modelled here:                                                   *)
(*   - Gap-Fill Merger        merge_cl_comp.py   merge_vehicle_data        *)
(*   - Cross-Source Merger    merge_cl_ph.py     merge_archivos_dia, main  *)
(*   - Homologator            homologate.py      procesar_datos, main      *)
(*                                                                         *)
(* A text cell is a record [na, lead, body, trail]: na marks a missing   *)
(* cell (NaN), lead and trail count the blanks around the body, and the    *)
(* body is the sequence of its characters (control point) or of its tokens *)
(* (interval, movement).  str.strip() sets lead and trail to 0.            *)
(* A numeric cell is a natural number or Null (NaN / empty cell).          *)
(***************************************************************************)
EXTENDS Integers, Sequences, FiniteSets, TLC

VARIABLES
    stage,          \* which program is running: "gapfill", "cross", "homolog", "pipeline"
    \* ---- interp_tricycles.py
    TIPO_MUESTREO,          \* module global, line 15
    MINUTOS_MUESTREO,       \* module global, line 17
    config,                 \* config.json as found by main, or NoConfig
    locales,                \* main: its local TIPO_MUESTREO and MINUTOS_MUESTREO
    fecha_inicio_mapping,   \* rows of the anchor sheet of the template
    archivos_excel,         \* main: the raw family-B day-files, by day
    n_archivo,              \* main: how many of them have been processed
    mapeo_fecha_especifica, \* procesar_archivo_inicial: anchors of the file
    df_procesado,           \* procesar_archivo_inicial: its result, or NoProcesado
    rama,                   \* interpolar_datos: the branch taken for the file
    data_filipinas,         \* the output written (or not) for each day-file
    fpc,                    \* position in interp_tricycles.main
    \* ---- merge_cl_comp.py
    carpetas_dias,  \* main: the raw day-files still to be processed, by day
    numero_dia,     \* main: how many of them have been processed
    base,           \* the base day-file as read (rows)
    df_resultado,   \* merge_vehicle_data: the dataset being completed
    df2,            \* merge_vehicle_data: the complementary dataset read last
    gpc,            \* position in merge_vehicle_data
    \* ---- merge_cl_ph.py
    data_chile,     \* main: the gap-filled day-files still to be processed
    df_chile,       \* family-A day-file as read
    df_filipinas,   \* family-B day-file as read, or NoFileB
    df_merged,      \* the completed dataset written for the day, or NoFile
    xpc,            \* position in merge_cl_ph.main for the day
    \* ---- homologate.py
    mapeo_tabla,    \* rows of the vehicle-class sheet of the template
    dfs,            \* the completed day-files as read by main
    df_combined,    \* procesar_datos: the combined table being transformed
    reporte,        \* the final report, or NoReporte
    hpc,            \* position in procesar_datos
    \* ---- merge_cl_comp.py, main over the files of the day folders
    archivos_principales,   \* main: the base files, each with its day folder
    n_principal,            \* main: how many of them have been processed
    archivos_salida,        \* the output files written so far, in order
    \* ---- homologate_pedestrians.py
    archivos_peatones,      \* main: the pedestrian files, in glob order
    n_peaton,               \* main: how many of them have been processed
    dfs_peatones,           \* main: dfs, the processed tables
    reporte_peatones,       \* reporte_final_peatones.xlsx, or NoReporte
    \* ---- main.py and app.py, one run of the four stages
    orquestador,            \* "main.py" or "app.py"
    plantilla,              \* what Plantilla/plantilla_peru.xlsx holds
    carpetas,               \* the input folders that exist
    iniciadas,              \* the stages started so far, in order
    archivos_corrida,       \* the output folders that hold a file
    corrida,                \* how the run stands or ended
    \* ---- app.py, upload sessions served by threads of one process
    cwd,                    \* the working directory of the process
    directorios,            \* the directories that exist
    sesiones,               \* each session: position, original_dir, accesses
    \* ---- normalizar_texto of the five modules
    texto,                  \* the text given
    canonico                \* what each module returned for it

vars == <<TIPO_MUESTREO, MINUTOS_MUESTREO, config, locales, fecha_inicio_mapping,
          archivos_excel, n_archivo, mapeo_fecha_especifica, df_procesado, rama,
          data_filipinas, fpc,
          stage, carpetas_dias, numero_dia, base, df_resultado, df2, gpc,
          data_chile, df_chile, df_filipinas, df_merged, xpc,
          mapeo_tabla, dfs, df_combined, reporte, hpc,
          archivos_principales, n_principal, archivos_salida,
          archivos_peatones, n_peaton, dfs_peatones, reporte_peatones,
          orquestador, plantilla, carpetas, iniciadas, archivos_corrida, corrida,
          cwd, directorios, sesiones, texto, canonico>>

fiVars    == <<TIPO_MUESTREO, MINUTOS_MUESTREO, config, locales, fecha_inicio_mapping,
               archivos_excel, n_archivo, mapeo_fecha_especifica, df_procesado, rama,
               data_filipinas, fpc>>
gapVars   == <<carpetas_dias, numero_dia, base, df_resultado, df2, gpc>>
crossVars == <<data_chile, df_chile, df_filipinas, df_merged, xpc>>
homVars   == <<mapeo_tabla, dfs, df_combined, reporte, hpc>>
priVars   == <<archivos_principales, n_principal, archivos_salida>>
peaVars   == <<archivos_peatones, n_peaton, dfs_peatones, reporte_peatones>>
runVars   == <<orquestador, plantilla, carpetas, iniciadas, archivos_corrida, corrida>>
sesVars   == <<cwd, directorios, sesiones>>
normVars  == <<texto, canonico>>
extVars   == <<priVars, peaVars, runVars, sesVars, normVars>>

-----------------------------------------------------------------------------
(* Bounds of the model *)

MaxBaseRows == 2
MaxCompRows == 2
MaxFilas    == 3
MaxMapeo    == 2
MaxFilasA   == 2
MaxFilasB   == 2
MaxFilasDia == 2
MaxFilasFi  == 3
MaxAnclas   == 2
MaxArchivos == 2
MaxFilasPeaton == 2
MaxTexto    == 3

-----------------------------------------------------------------------------
(* Values *)

\* NaN in a numeric column
Null == -1
Idle == "idle"

\* pd.isna on a numeric cell
IsNa(v) == v = Null

Txt(l, b, t) == [na |-> FALSE, lead |-> l, body |-> b, trail |-> t]

\* NaN in a text column
NaTxt == [na |-> TRUE, lead |-> 0, body |-> <<>>, trail |-> 0]

\* str.strip()
Strip(t) == [t EXCEPT !.lead = 0, !.trail = 0]

\* astype(str): a missing cell becomes the text 'nan'
AsStr(t) == IF t.na THEN Txt(0, <<"n", "a", "n">>, 0) ELSE t

\* The alphabets the inputs are drawn from
PC1  == <<"P", "C", "1">>
PC2  == <<"P", "C", "2">>
\* "01/29/2025 08:00:00 - 01/29/2025 08:15:00" as tokens: date, hour, minute
Int1 == <<"d1", "08", "00", "-", "d1", "08", "15">>
Int2 == <<"d1", "08", "15", "-", "d1", "08", "30">>
Mov1 == <<"m1">>
ColCar   == <<"c", "a", "r">>
VehCols  == {ColCar}
Counts   == {Null, 0, 1, 2}

-----------------------------------------------------------------------------
(* merge_cl_comp.py : the Gap-Fill Merger *)

\* One row of a day-file or of a complementary file of family A
GapRow(f, i, m, v) == [fuente |-> f, intervalo |-> i, movimiento |-> m, veh |-> v]

\* lines 118-120 and 125-127: the three key columns as trimmed strings
NormalizarClaves(rows) ==
    [k \in 1..Len(rows) |->
        [rows[k] EXCEPT !.fuente     = Strip(AsStr(@)),
                        !.intervalo  = Strip(AsStr(@)),
                        !.movimiento = Strip(AsStr(@))]]

\* lines 137-141: the rows of df2 whose key equals the base row's key
FilasCoincidentesUltima(filas2, fila) ==
    LET m == SelectSeq(filas2, LAMBDA r : /\ r.fuente = fila.fuente
                                          /\ r.intervalo = fila.intervalo
                                          /\ r.movimiento = fila.movimiento)
    IN  IF m = <<>> THEN m ELSE <<m[Len(m)]>>

FilasCoincidentes(filas2, fila) ==
    SelectSeq(filas2, LAMBDA r : /\ r.fuente = fila.fuente
                                 /\ r.intervalo = fila.intervalo
                                 /\ r.movimiento = fila.movimiento)

\* line 148: the cell is missing or zero
CeldaVaciaSiempre(v) == TRUE

CeldaVacia(v) == IsNa(v) \/ v = 0

\* line 153: the candidate value is usable
ValorUtil(v) == ~IsNa(v) /\ v # 0

\* lines 143-155: one base row against one complementary dataset
ActualizarFilaSinGuarda(fila, comp) ==
    LET m == FilasCoincidentes(comp.rows, fila)
    IN  IF m = <<>> THEN fila
        ELSE [fila EXCEPT !.veh =
                [c \in DOMAIN fila.veh |->
                    IF c \in comp.cols /\ ValorUtil(m[1].veh[c])
                    THEN m[1].veh[c] ELSE fila.veh[c]]]

ActualizarFila(fila, comp) ==
    LET m == FilasCoincidentes(comp.rows, fila)
    IN  IF m = <<>> THEN fila
        ELSE [fila EXCEPT !.veh =
                [c \in DOMAIN fila.veh |->
                    IF /\ CeldaVacia(fila.veh[c])
                       /\ c \in comp.cols
                       /\ ValorUtil(m[1].veh[c])
                    THEN m[1].veh[c] ELSE fila.veh[c]]]

\* lines 136-158: every base row against one complementary dataset
AplicarComplementario(df, comp) ==
    [k \in 1..Len(df) |-> ActualizarFila(df[k], comp)]

\* The files the Gap-Fill Merger may be given
SeqsUpTo(S, n) == UNION {[1..k -> S] : k \in 0..n}

BaseRows == {GapRow(f, Txt(0, Int1, 0), Txt(0, Mov1, 0), v) :
                f \in {Txt(1, PC1, 0), Txt(0, PC2, 0)}, v \in [VehCols -> Counts]}
BaseFiles == SeqsUpTo(BaseRows, MaxBaseRows) \ {<<>>}

CompRowsWith(cols) ==
    {GapRow(f, Txt(0, Int1, 0), Txt(0, Mov1, 0), v) :
        f \in {Txt(0, PC1, 0), Txt(0, PC2, 1)}, v \in [cols -> Counts]}
CompFiles ==
    UNION {{[cols |-> cols, rows |-> rs] :
                rs \in SeqsUpTo(CompRowsWith(cols), MaxCompRows)} :
            cols \in SUBSET VehCols}

NoComp == [cols |-> {}, rows |-> <<>>]
NoFileB == [present |-> FALSE, rows |-> <<>>]
NoFile == [written |-> FALSE, rows |-> <<>>]

NoConfig == [hay |-> FALSE, TIPO_MUESTREO |-> "", MINUTOS_MUESTREO |-> 0]
NoLocales == [TIPO_MUESTREO |-> "", MINUTOS_MUESTREO |-> 0]
NoProcesado == [ok |-> FALSE, cols |-> {}, rows |-> <<>>]
PriIdle == /\ archivos_principales = <<>> /\ n_principal = 0 /\ archivos_salida = <<>>
PeaIdle ==
    /\ archivos_peatones = <<>> /\ n_peaton = 0 /\ dfs_peatones = <<>>
    /\ reporte_peatones = [ok |-> FALSE, written |-> FALSE, rows |-> <<>>]
RunIdle ==
    /\ orquestador = Idle /\ plantilla = Idle /\ carpetas = {}
    /\ iniciadas = <<>> /\ archivos_corrida = {} /\ corrida = Idle
SesIdle == /\ cwd = <<>> /\ directorios = {} /\ sesiones = <<>>
NormIdle == /\ texto = <<>> /\ canonico = <<>>
ExtIdle == PriIdle /\ PeaIdle /\ RunIdle /\ SesIdle /\ NormIdle
FiIdle ==
    /\ TIPO_MUESTREO = "CADA_HORA" /\ MINUTOS_MUESTREO = 5
    /\ config = NoConfig /\ locales = NoLocales
    /\ fecha_inicio_mapping = <<>> /\ archivos_excel = <<>> /\ n_archivo = 0
    /\ mapeo_fecha_especifica = <<>> /\ df_procesado = NoProcesado /\ rama = Idle
    /\ data_filipinas = <<>> /\ fpc = Idle
    /\ ExtIdle
GapIdle == /\ carpetas_dias = <<>> /\ numero_dia = 0 /\ base = <<>> /\ df_resultado = <<>> /\ df2 = NoComp /\ gpc = Idle
CrossIdle == /\ data_chile = <<>> /\ df_chile = <<>> /\ df_filipinas = NoFileB /\ df_merged = NoFile /\ xpc = Idle
HomIdle == /\ mapeo_tabla = <<>> /\ dfs = <<>> /\ df_combined = <<>>
           /\ reporte = NoFile /\ hpc = Idle

GapInit ==
    /\ stage = "gapfill"
    /\ carpetas_dias = <<>>
    /\ numero_dia = 0
    /\ base \in BaseFiles
    /\ df_resultado = <<>>
    /\ df2 = NoComp
    /\ gpc = "read"
    /\ CrossIdle /\ HomIdle /\ FiIdle

\* lines 63-120: read the base file, trim its key columns
LeerBase ==
    /\ gpc = "read"
    /\ df_resultado' = NormalizarClaves(base)
    /\ gpc' = "comps"
    /\ UNCHANGED <<stage, carpetas_dias, numero_dia, base, df2, crossVars, homVars, fiVars, extVars>>

\* lines 122-131: the loop over archivos_complementarios reads the next
\* complementary file and trims its key columns
LeerComplementario ==
    /\ gpc = "comps"
    /\ \E f \in CompFiles : df2' = [f EXCEPT !.rows = NormalizarClaves(@)]
    /\ gpc' = "merge"
    /\ UNCHANGED <<stage, carpetas_dias, numero_dia, base, df_resultado, crossVars, homVars, fiVars, extVars>>

\* lines 133-167: the rows of df_resultado are completed from df2; df2 is
\* not read again before the loop rebinds it
CompletarDesdeComplementario ==
    /\ gpc = "merge"
    /\ df_resultado' = AplicarComplementario(df_resultado, df2)
    /\ df2' = NoComp
    /\ gpc' = "comps"
    /\ UNCHANGED <<stage, carpetas_dias, numero_dia, base, crossVars, homVars, fiVars, extVars>>

\* line 176: the list is exhausted, the result is returned
DevolverResultado ==
    /\ gpc = "comps"
    /\ gpc' = "done"
    /\ UNCHANGED <<stage, carpetas_dias, numero_dia, base, df_resultado, df2, crossVars, homVars, fiVars, extVars>>

GapNext ==
    \/ LeerBase
    \/ LeerComplementario
    \/ CompletarDesdeComplementario
    \/ DevolverResultado

SpecGapFill == GapInit /\ [][GapNext]_vars

-----------------------------------------------------------------------------
(* Properties of the Gap-Fill Merger *)

GapCargado == stage = "gapfill" /\ gpc \in {"comps", "merge", "done"}

ClaveIgual(r, s) ==
    /\ r.fuente = Strip(AsStr(s.fuente))
    /\ r.intervalo = Strip(AsStr(s.intervalo))
    /\ r.movimiento = Strip(AsStr(s.movimiento))

\* C1: a base cell that is neither null nor zero before the merge holds the
\* same value in the result, whatever complementary datasets were applied.
C1_NoSobrescribe ==
    GapCargado =>
        /\ Len(df_resultado) = Len(base)
        /\ \A i \in 1..Len(base) : \A c \in VehCols :
              (base[i].veh[c] # Null /\ base[i].veh[c] # 0)
                  => df_resultado[i].veh[c] = base[i].veh[c]

\* Two base rows with the same key: one had a nonzero value and kept it
\* while the other, empty in the base, was filled with a different value
\* from the complementary row both match.
C1_Witness ==
    /\ GapCargado
    /\ \E i, j \in 1..Len(df_resultado) : \E c \in VehCols :
          /\ Len(base) = Len(df_resultado)
          /\ ClaveIgual(df_resultado[i], base[j])
          /\ base[i].veh[c] = 1 /\ df_resultado[i].veh[c] = 1
          /\ base[j].veh[c] \in {Null, 0} /\ df_resultado[j].veh[c] = 2

\* Indices of the rows of df2 whose trimmed key equals that of base row i
Coincidentes(i) ==
    {k \in 1..Len(df2.rows) : ClaveIgual(df2.rows[k], base[i])}

Minimo(S) == CHOOSE k \in S : \A j \in S : k <= j

\* The value one dataset contributes to cell (i, c): that of its first
\* matching row, when the dataset has the column and the value is neither
\* null nor zero; otherwise Null
AportePrimeraFila(i, c) ==
    IF Coincidentes(i) = {} \/ c \notin df2.cols THEN Null
    ELSE LET v == df2.rows[Minimo(Coincidentes(i))].veh[c]
         IN  IF v = 0 THEN Null ELSE v

\* The value one dataset contributes when all its matching rows are scanned
AporteTodasLasFilas(i, c) ==
    LET ks == {k \in Coincidentes(i) :
                 c \in df2.cols /\ df2.rows[k].veh[c] # Null /\ df2.rows[k].veh[c] # 0}
    IN  IF ks = {} THEN Null ELSE df2.rows[Minimo(ks)].veh[c]

PasoDeMerge == stage = "gapfill" /\ gpc = "merge" /\ gpc' = "comps"

\* C2 (as amended): the result keeps the row count of the base, and applying
\* a complementary dataset sets every cell that is still null or zero to the
\* nonzero, non-null value of the dataset's FIRST row matching the trimmed
\* key, and leaves the cell as it is when that first matching row has no
\* such value (or no row matches, or the dataset lacks the column).
C2_PrimeraFilaCoincidente ==
    [][PasoDeMerge =>
        /\ Len(df_resultado') = Len(base)
        /\ \A i \in 1..Len(base) : \A c \in VehCols :
              df_resultado'[i].veh[c] =
                 IF df_resultado[i].veh[c] \in {Null, 0} /\ AportePrimeraFila(i, c) # Null
                 THEN AportePrimeraFila(i, c)
                 ELSE df_resultado[i].veh[c]]_vars

\* A dataset whose first matching row is empty for the column and whose
\* second matching row is not was applied to an empty cell, which stayed
\* empty; another cell was filled.
C2_Witness ==
    /\ stage = "gapfill" /\ gpc = "merge"
    /\ \E i \in 1..Len(base) : \E c \in VehCols :
          /\ df_resultado[i].veh[c] \in {Null, 0}
          /\ AportePrimeraFila(i, c) = Null
          /\ AporteTodasLasFilas(i, c) # Null
    /\ \E i \in 1..Len(base) : \E c \in VehCols :
          /\ base[i].veh[c] \in {Null, 0}
          /\ df_resultado[i].veh[c] \notin {Null, 0}

\* C2 (as stated): an empty cell takes the first nonzero, non-null value found
\* over ALL the matching rows of the dataset being applied.
C2_TodasLasFilas ==
    [][PasoDeMerge =>
        \A i \in 1..Len(base) : \A c \in VehCols :
            (df_resultado[i].veh[c] \in {Null, 0} /\ AporteTodasLasFilas(i, c) # Null)
                => df_resultado'[i].veh[c] = AporteTodasLasFilas(i, c)]_vars

\* C3: once a cell that was empty in the base has been filled, no later
\* complementary dataset changes it.
C3_NoRevisita ==
    [][\A i \in 1..Len(df_resultado) : \A c \in VehCols :
          (GapCargado /\ base[i].veh[c] \in {Null, 0}
                      /\ df_resultado[i].veh[c] \notin {Null, 0})
              => df_resultado'[i].veh[c] = df_resultado[i].veh[c]]_vars

\* A filled cell meets a later dataset whose first matching row offers a
\* different nonzero value.
C3_Witness ==
    /\ stage = "gapfill" /\ gpc = "merge"
    /\ \E i \in 1..Len(base) : \E c \in VehCols :
          /\ base[i].veh[c] \in {Null, 0}
          /\ df_resultado[i].veh[c] \notin {Null, 0}
          /\ AportePrimeraFila(i, c) # Null
          /\ AportePrimeraFila(i, c) # df_resultado[i].veh[c]

-----------------------------------------------------------------------------
(* homologate.py : the Homologator *)

\* Characters: "A^" and "a^" stand for the accented letters
SinTilde(c) == CASE c = "A^" -> "A" [] c = "a^" -> "a" [] OTHER -> c
LetrasMin == <<"a", "b", "c", "d", "e", "f", "g", "i", "j", "l", "m", "n", "o", "p", "r", "s",
               "t", "u", "v", "x", "y", "z">>
LetrasMay == <<"A", "B", "C", "D", "E", "F", "G", "I", "J", "L", "M", "N", "O", "P", "R", "S",
               "T", "U", "V", "X", "Y", "Z">>

\* str.lower() and str.upper(), character by character
Minuscula(c) ==
    IF \E k \in 1..Len(LetrasMay) : LetrasMay[k] = c
    THEN LetrasMin[CHOOSE k \in 1..Len(LetrasMay) : LetrasMay[k] = c]
    ELSE IF c = "A^" THEN "a^" ELSE c
Mayuscula(c) ==
    IF \E k \in 1..Len(LetrasMin) : LetrasMin[k] = c
    THEN LetrasMay[CHOOSE k \in 1..Len(LetrasMin) : LetrasMin[k] = c]
    ELSE IF c = "a^" THEN "A^" ELSE c

RECURSIVE QuitarBlancosIzq(_)
QuitarBlancosIzq(s) ==
    IF s # <<>> /\ Head(s) = " " THEN QuitarBlancosIzq(Tail(s)) ELSE s

RECURSIVE QuitarBlancosDer(_)
QuitarBlancosDer(s) ==
    IF s # <<>> /\ s[Len(s)] = " " THEN QuitarBlancosDer(SubSeq(s, 1, Len(s) - 1)) ELSE s

\* lines 17-27: accents removed, lower case, trimmed
normalizar_texto(s) ==
    QuitarBlancosDer(QuitarBlancosIzq([k \in 1..Len(s) |-> Minuscula(SinTilde(s[k]))]))

\* The characters of a text cell as str() gives them
Blancos(n) == [k \in 1..n |-> " "]
TextoChars(t) == Blancos(t.lead) \o t.body \o Blancos(t.trail)

Digitos == {"0", "1", "2", "3", "4", "5", "6", "7", "8", "9"}

Min(S) == CHOOSE k \in S : \A j \in S : k <= j
Max(S) == CHOOSE k \in S : \A j \in S : k >= j

\* lines 29-38: the first PC<digits> of the text, <<>> for None
extract_pc_number(t) ==
    IF t.na THEN <<>>
    ELSE LET s  == TextoChars(t)
             ps == {i \in 1..Len(s) - 2 :
                        s[i] = "P" /\ s[i + 1] = "C" /\ s[i + 2] \in Digitos}
         IN  IF ps = {} THEN <<>>
             ELSE LET i == Min(ps)
                      j == Max({e \in i + 2..Len(s) :
                                   \A k \in i + 2..e : s[k] \in Digitos})
                  IN  SubSeq(s, i, j)

\* lines 40-60: the mapping as a dict: a repeated key keeps its first place
\* and takes the last value
RECURSIVE DictDe(_)
DictDe(tabla) ==
    IF tabla = <<>> THEN <<>>
    ELSE LET d == DictDe(SubSeq(tabla, 1, Len(tabla) - 1))
             e == tabla[Len(tabla)]
             k == normalizar_texto(e.entrada)
             w == {i \in 1..Len(d) : d[i].clave = k}
         IN  IF w = {} THEN Append(d, [clave |-> k, valor |-> e.salida])
             ELSE [i \in 1..Len(d) |->
                     IF i \in w THEN [clave |-> k, valor |-> e.salida] ELSE d[i]]

Claves(d) == {d[i].clave : i \in 1..Len(d)}
ValorDe(d, k) == d[Min({i \in 1..Len(d) : d[i].clave = k})].valor

\* line 116: list(dict.fromkeys(mapeo_vehiculos.values()))
RECURSIVE SinRepetir(_)
SinRepetir(vs) ==
    IF vs = <<>> THEN <<>>
    ELSE LET r == SinRepetir(SubSeq(vs, 1, Len(vs) - 1))
         IN  IF \E i \in 1..Len(r) : r[i] = vs[Len(vs)] THEN r
             ELSE Append(r, vs[Len(vs)])

vehiculos_salida(d) == SinRepetir([i \in 1..Len(d) |-> d[i].valor])

\* lines 110-111
columnas_vehiculos(cols, d) == {c \in cols : normalizar_texto(c) \in Claves(d)}

\* lines 122-123
columnas_entrada(cols, d, salida) ==
    {c \in columnas_vehiculos(cols, d) : ValorDe(d, normalizar_texto(c)) = salida}

RECURSIVE SumaCeldas(_, _)
\* fillna(0).sum(axis=1) over the columns of S
SumaCeldas(f, S) ==
    IF S = {} THEN 0
    ELSE LET c == CHOOSE x \in S : TRUE
         IN  (IF IsNa(f[c]) THEN 0 ELSE f[c]) + SumaCeldas(f, S \ {c})

\* f with column c set to v (created when it does not exist)
ConColumna(f, c, v) == [x \in DOMAIN f \cup {c} |-> IF x = c THEN v ELSE f[x]]

\* lines 121-137: the output columns are written one after the other into
\* the same table; the contributing columns are fixed beforehand (line 110)
RECURSIVE Sintetizar(_, _, _, _)
Sintetizar(f, entradas, d, salidas) ==
    IF salidas = <<>> THEN f
    ELSE LET g   == Sintetizar(f, entradas, d, SubSeq(salidas, 1, Len(salidas) - 1))
             sal == salidas[Len(salidas)]
             ce  == columnas_entrada(entradas, d, sal)
         IN  IF ce = {} THEN g ELSE ConColumna(g, sal, SumaCeldas(g, ce))

\* lines 140-163: the timestamps an interval text spells, by token
DiaDe(tok)    == CASE tok = "d1" -> 1 [] tok = "d2" -> 2 [] OTHER -> 0
HoraDe(tok)   == CASE tok = "08" -> 8 [] tok = "09" -> 9 [] OTHER -> 0
MinutoDe(tok) == CASE tok = "00" -> 0 [] tok = "15" -> 15 [] tok = "20" -> 20
                   [] tok = "30" -> 30 [] tok = "45" -> 45 [] OTHER -> 0

\* pd.to_datetime(..., format="%m/%d/%Y %H:%M:%S") accepts the text
FechaHoraValida(toks) ==
    /\ Len(toks) = 3
    /\ toks[1] \in {"d1", "d2"}
    /\ toks[2] \in {"08", "09"}
    /\ toks[3] \in {"00", "15", "20", "30", "45"}

\* str.split(' - ').str[0] and .str[1]
ParteInicio(t) == SubSeq(t.body, 1, Min({i \in 1..Len(t.body) + 1 :
                                            i = Len(t.body) + 1 \/ t.body[i] = "-"}) - 1)
ParteFin(t) ==
    LET i == Min({k \in 1..Len(t.body) + 1 : k = Len(t.body) + 1 \/ t.body[k] = "-"})
    IN  SubSeq(t.body, i + 1, Len(t.body))

IntervaloValido(t) ==
    ~t.na /\ t.lead = 0 /\ t.trail = 0 /\ FechaHoraValida(ParteInicio(t)) /\ FechaHoraValida(ParteFin(t))

\* lines 106-107 and 140-166: PC and the temporal fields of one row
mapeo_calles(pc) == IF pc = PC1 THEN <<"calle uno">> ELSE <<>>

ConCamposDerivados(r) ==
    LET ini == ParteInicio(r.INTERVALO)
        fin == ParteFin(r.INTERVALO)
        pc  == extract_pc_number(r.FUENTE)
    IN  [idx          |-> r.idx,
         FUENTE       |-> r.FUENTE,
         MOVIMIENTO   |-> r.MOVIMIENTO,
         cols         |-> r.cols,
         PC           |-> pc,
         INTERSECCION |-> mapeo_calles(pc),
         FECHA        |-> DiaDe(ini[1]),
         HORA_INICIO  |-> <<HoraDe(ini[2]), MinutoDe(ini[3])>>,
         HORA_TERMINO |-> <<HoraDe(fin[2]), MinutoDe(fin[3])>>,
         CUARTO       |-> <<HoraDe(ini[2]), (MinutoDe(ini[3]) \div 15) + 1>>]

\* line 169
ClaveIdentificadora(r) ==
    <<r.PC, r.FECHA, r.HORA_INICIO, r.HORA_TERMINO, r.MOVIMIENTO, r.CUARTO>>

\* lines 82-86: builtin sum over the output columns the row has; NaN spreads
RECURSIVE SumaLista(_, _)
SumaLista(f, S) ==
    IF S = {} THEN 0
    ELSE LET c == CHOOSE x \in S : TRUE
         IN  f[c] + SumaLista(f, S \ {c})

get_suma_vehiculos(r, salidas) ==
    LET S == {salidas[i] : i \in 1..Len(salidas)} \cap DOMAIN r.cols
    IN  IF \E c \in S : IsNa(r.cols[c]) THEN Null ELSE SumaLista(r.cols, S)

\* line 170: duplicated(subset=columnas_identificadoras, keep=False);
\* missing components compare equal
duplicados(df, i) ==
    \E j \in 1..Len(df) : j # i /\ ClaveIdentificadora(df[j]) = ClaveIdentificadora(df[i])

\* line 178: groupby leaves out the rows whose key has a missing component
EnGrupo(r) == r.PC # <<>> /\ ~r.MOVIMIENTO.na

\* lines 181-194: the position kept for the group of the rows at positions g
idx_mantener_todas(df, g, salidas) == g

idx_mantener(df, g, salidas) ==
    LET suma(i) == get_suma_vehiculos(df[i], salidas)
    IN  IF (\E i \in g : suma(i) = 0) /\ (\E i \in g : suma(i) > 0)
        THEN {Min({i \in g : suma(i) > 0})}
        ELSE {Max(g)}

\* lines 172-198
EliminarDuplicados(df, salidas) ==
    LET grupo(i) == {j \in 1..Len(df) :
                        ClaveIdentificadora(df[j]) = ClaveIdentificadora(df[i])}
        mantener == UNION {idx_mantener(df, grupo(i), salidas) :
                              i \in {k \in 1..Len(df) : duplicados(df, k) /\ EnGrupo(df[k])}}
    IN  SelectSeq([i \in 1..Len(df) |-> [pos |-> i, fila |-> df[i]]],
                  LAMBDA e : ~duplicados(df, e.pos) \/ e.pos \in mantener)

\* Order of characters in string comparison
Alfabeto == <<" ", "-", "0", "1", "2", "3", "4", "5", "6", "7", "8", "9",
              "A", "B", "C", "N", "P", "R", "U", "V", "X", "a", "m1", "m2", "n">>
Rango(c) == Min({i \in 1..Len(Alfabeto) + 1 : i = Len(Alfabeto) + 1 \/ Alfabeto[i] = c})

RECURSIVE MenorTexto(_, _)
MenorTexto(a, b) ==
    IF b = <<>> THEN FALSE
    ELSE IF a = <<>> THEN TRUE
    ELSE IF Rango(Head(a)) # Rango(Head(b)) THEN Rango(Head(a)) < Rango(Head(b))
    ELSE MenorTexto(Tail(a), Tail(b))

\* line 158: strftime('%d-%m-%Y') of the day: day 1 is 29 January 2025 (the
\* token "d1"), day 2 is 1 February 2025 (the token "d2")
FechaTexto(d) ==
    IF d = 1 THEN <<"2", "9", "-", "0", "1", "-", "2", "0", "2", "5">>
    ELSE IF d = 2 THEN <<"0", "1", "-", "0", "2", "-", "2", "0", "2", "5">>
    ELSE <<"0", "0", "-", "0", "0", "-", "0", "0", "0", "0">>

Cifra(c) == Min({n \in 0..9 : <<"0", "1", "2", "3", "4", "5", "6", "7", "8", "9">>[n + 1] = c})

RECURSIVE ValorNumerico(_)
ValorNumerico(s) ==
    IF s = <<>> THEN 0
    ELSE 10 * ValorNumerico(SubSeq(s, 1, Len(s) - 1)) + Cifra(s[Len(s)])

\* the place of the text DD-MM-YYYY among such texts compared as strings
FechaComoTexto(t) ==
    ValorNumerico(SubSeq(t, 1, 2)) * 1000000 + ValorNumerico(SubSeq(t, 4, 5)) * 10000
        + ValorNumerico(SubSeq(t, 7, 10))

\* line 209: pd.to_datetime(FECHA, format='%d-%m-%Y'), as a count of days
FechaOrden(t) ==
    ValorNumerico(SubSeq(t, 7, 10)) * 372 + ValorNumerico(SubSeq(t, 4, 5)) * 31
        + ValorNumerico(SubSeq(t, 1, 2))

\* lines 209-214: -1, 0 or 1 by (date, PC, MOVIMIENTO, HORA INICIO), a missing
\* value after every present one
Comparar(a, b) ==
    LET pcA  == a.PC = <<>>
        pcB  == b.PC = <<>>
        mA   == TextoChars(a.MOVIMIENTO)
        mB   == TextoChars(b.MOVIMIENTO)
    IN  IF a.FECHA # b.FECHA
        THEN (IF FechaOrden(FechaTexto(a.FECHA)) < FechaOrden(FechaTexto(b.FECHA))
              THEN -1 ELSE 1)
        ELSE IF pcA # pcB THEN (IF pcB THEN -1 ELSE 1)
        ELSE IF a.PC # b.PC THEN (IF MenorTexto(a.PC, b.PC) THEN -1 ELSE 1)
        ELSE IF a.MOVIMIENTO.na # b.MOVIMIENTO.na THEN (IF b.MOVIMIENTO.na THEN -1 ELSE 1)
        ELSE IF mA # mB THEN (IF MenorTexto(mA, mB) THEN -1 ELSE 1)
        ELSE IF a.HORA_INICIO # b.HORA_INICIO
             THEN (IF \/ a.HORA_INICIO[1] < b.HORA_INICIO[1]
                      \/ /\ a.HORA_INICIO[1] = b.HORA_INICIO[1]
                         /\ a.HORA_INICIO[2] < b.HORA_INICIO[2]
                   THEN -1 ELSE 1)
        ELSE 0

\* sort_values over several columns is stable
RECURSIVE Ordenar(_)
Ordenar(rows) ==
    IF rows = <<>> THEN <<>>
    ELSE LET r    == rows[Len(rows)]
             prev == Ordenar(SubSeq(rows, 1, Len(rows) - 1))
             n    == Cardinality({i \in 1..Len(prev) : Comparar(prev[i], r) <= 0})
         IN  SubSeq(prev, 1, n) \o <<r>> \o SubSeq(prev, n + 1, Len(prev))

\* lines 202-206: the columns of the report
FilaReporte(r, salidas) ==
    [idx          |-> r.idx,
     PC           |-> r.PC,
     INTERSECCION |-> r.INTERSECCION,
     FECHA        |-> r.FECHA,
     HORA_INICIO  |-> r.HORA_INICIO,
     HORA_TERMINO |-> r.HORA_TERMINO,
     MOVIMIENTO   |-> r.MOVIMIENTO,
     CUARTO       |-> r.CUARTO,
     veh          |-> [c \in {salidas[i] : i \in 1..Len(salidas)} |-> r.cols[c]]]

NoReporte == [ok |-> FALSE, written |-> FALSE, rows |-> <<>>]

\* lines 88-223: procesar_datos; any exception gives None
procesar_datos(df, tabla) ==
    LET d        == DictDe(tabla)
        salidas  == vehiculos_salida(d)
        cols0    == IF df = <<>> THEN {} ELSE DOMAIN df[1].cols
        conSal   == [i \in 1..Len(df) |->
                        [df[i] EXCEPT !.cols = Sintetizar(@, cols0, d, salidas)]]
        faltan   == \E i \in 1..Len(salidas) :
                        /\ salidas[i] \notin cols0
                        /\ columnas_entrada(cols0, d, salidas[i]) = {}
    IN  IF \E i \in 1..Len(df) : ~IntervaloValido(df[i].INTERVALO) THEN NoReporte
        ELSE LET deriv == [i \in 1..Len(df) |-> ConCamposDerivados(conSal[i])]
                 dedup == EliminarDuplicados(deriv, salidas)
             IN  IF faltan THEN NoReporte
                 ELSE [ok      |-> TRUE,
                       written |-> FALSE,
                       rows    |-> Ordenar([i \in 1..Len(dedup) |->
                                               FilaReporte(dedup[i].fila, salidas)])]

\* main, lines 238-262: the non-empty day-files in file order, one index
\* label per row of the combined table
RECURSIVE Concatenar(_)
Concatenar(files) ==
    IF files = <<>> THEN <<>>
    ELSE Concatenar(SubSeq(files, 1, Len(files) - 1)) \o files[Len(files)]

Combinar(files) ==
    LET rs == Concatenar(files)
    IN  [i \in 1..Len(rs) |->
            [idx |-> i, FUENTE |-> rs[i].FUENTE, INTERVALO |-> rs[i].INTERVALO,
             MOVIMIENTO |-> rs[i].MOVIMIENTO, cols |-> rs[i].cols]]

HomRow(f, i, m, c) == [FUENTE |-> f, INTERVALO |-> i, MOVIMIENTO |-> m, cols |-> c]

\* Column names of the completed day-files and of the template
ColCAR  == <<"C", "A", "R">>
ColVAN  == <<"V", "A^", "N">>
SalAUTO == <<"A", "U">>
SinPC   == <<"X">>

\* One file, or the same rows as a first file of one row and a second file
EnArchivos(rs) ==
    IF Len(rs) < 2 THEN {<<rs>>}
    ELSE {<<rs>>, <<SubSeq(rs, 1, 1), SubSeq(rs, 2, Len(rs))>>}

\* Day-files whose rows repeat identifying keys, under a one-line template
FilasDedup ==
    {HomRow(Txt(0, PC1, 0), Txt(0, i, 0), Txt(0, Mov1, 0), c) :
        i \in {Int1, Int2}, c \in [{ColCAR} -> {0, 1, 2}]}
    \cup {HomRow(Txt(0, SinPC, 0), Txt(0, Int1, 0), Txt(0, Mov1, 0), c) :
        c \in [{ColCAR} -> {0, 1, 2}]}

DedupInit ==
    /\ stage = "homolog"
    /\ mapeo_tabla = <<[entrada |-> ColCAR, salida |-> SalAUTO]>>
    /\ dfs \in UNION {EnArchivos(rs) : rs \in SeqsUpTo(FilasDedup, MaxFilas) \ {<<>>}}
    /\ df_combined = <<>>
    /\ reporte = NoReporte
    /\ hpc = "load"
    /\ GapIdle /\ CrossIdle /\ FiIdle

\* Day-files of one key under every small template
FilasSuma ==
    {HomRow(Txt(0, PC1, 0), Txt(0, Int1, 0), Txt(0, Mov1, 0), c) :
        c \in [{ColCAR, ColVAN} -> Counts]}

ParesMapeo ==
    {[entrada |-> e, salida |-> v] :
        e \in {<<" ", "C", "a", "r">>, <<"v", "a", "n">>, <<"b", "u", "s">>},
        v \in {SalAUTO, ColCAR}}

SumaInit ==
    /\ stage = "homolog"
    /\ mapeo_tabla \in SeqsUpTo(ParesMapeo, MaxMapeo) \ {<<>>}
    /\ dfs \in {<<<<r>>>> : r \in FilasSuma}
    /\ df_combined = <<>>
    /\ reporte = NoReporte
    /\ hpc = "load"
    /\ GapIdle /\ CrossIdle /\ FiIdle

\* main, lines 238-262
CargarArchivos ==
    /\ hpc = "load"
    /\ LET llenos == SelectSeq(dfs, LAMBDA f : f # <<>>)
       IN  IF llenos = <<>>
           THEN /\ hpc' = "done"
                /\ UNCHANGED df_combined
           ELSE /\ df_combined' = Combinar(llenos)
                /\ hpc' = "procesar"
    /\ UNCHANGED <<stage, mapeo_tabla, dfs, reporte, gapVars, crossVars, fiVars, extVars>>

\* main, line 269
ProcesarDatos ==
    /\ hpc = "procesar"
    /\ reporte' = procesar_datos(df_combined, mapeo_tabla)
    /\ hpc' = "guardar"
    /\ UNCHANGED <<stage, mapeo_tabla, dfs, df_combined, gapVars, crossVars, fiVars, extVars>>

\* main, lines 271-277
GuardarReporte ==
    /\ hpc = "guardar"
    /\ reporte' = [reporte EXCEPT !.written = reporte.ok /\ reporte.rows # <<>>]
    /\ hpc' = "done"
    /\ UNCHANGED <<stage, mapeo_tabla, dfs, df_combined, gapVars, crossVars, fiVars, extVars>>

HomNext == CargarArchivos \/ ProcesarDatos \/ GuardarReporte

SpecDedup == DedupInit /\ [][HomNext]_vars
SpecSuma  == SumaInit /\ [][HomNext]_vars

-----------------------------------------------------------------------------
(* Properties of the Homologator *)

HomTerminado == stage = "homolog" /\ hpc = "done"

\* The identifying key of the combined row at position i
ClaveDe(i) == ClaveIdentificadora(ConCamposDerivados(df_combined[i]))
GrupoDe(i) == {j \in 1..Len(df_combined) : ClaveDe(j) = ClaveDe(i)}

\* The combined positions that reached the report
Conservadas == {reporte.rows[k].idx : k \in 1..Len(reporte.rows)}

\* The total of the mapped vehicle counts of the combined row at position i
SumaDeFila(i) ==
    SumaCeldas(df_combined[i].cols,
               columnas_vehiculos(DOMAIN df_combined[i].cols, DictDe(mapeo_tabla)))

\* The row the deduplication rule names for the group g
EsperadaDe(g) ==
    IF (\E i \in g : SumaDeFila(i) = 0) /\ (\E i \in g : SumaDeFila(i) # 0)
    THEN Min({i \in g : SumaDeFila(i) # 0})
    ELSE Max(g)

\* C4: of every group of more than one row sharing the identifying key,
\* exactly one row is kept: the first row with a nonzero total when the
\* group mixes zero and nonzero totals, the last row otherwise.
C4_ReglaDeDuplicados ==
    (HomTerminado /\ reporte.ok) =>
        \A i \in 1..Len(df_combined) :
            Cardinality(GrupoDe(i)) > 1
                => GrupoDe(i) \cap Conservadas = {EsperadaDe(GrupoDe(i))}

\* C5: no two rows of a final report share the identifying key.
C5_ClaveUnica ==
    (stage = "homolog" /\ reporte.ok) =>
        \A a, b \in 1..Len(reporte.rows) :
            (/\ reporte.rows[a].PC = reporte.rows[b].PC
             /\ reporte.rows[a].FECHA = reporte.rows[b].FECHA
             /\ reporte.rows[a].HORA_INICIO = reporte.rows[b].HORA_INICIO
             /\ reporte.rows[a].HORA_TERMINO = reporte.rows[b].HORA_TERMINO
             /\ reporte.rows[a].MOVIMIENTO = reporte.rows[b].MOVIMIENTO
             /\ reporte.rows[a].CUARTO = reporte.rows[b].CUARTO) => a = b

\* A report was written from day-files in which a key with a control point
\* came three times, with totals zero and nonzero, beside another key.
C5_Witness ==
    /\ HomTerminado /\ reporte.written
    /\ Len(reporte.rows) >= 1
    /\ \E i \in 1..Len(df_combined) :
          /\ Cardinality(GrupoDe(i)) >= 2
          /\ ClaveDe(i)[1] # <<>>
          /\ \E a, b \in GrupoDe(i) : SumaDeFila(a) = 0 /\ SumaDeFila(b) # 0
          /\ GrupoDe(i) \cap Conservadas # {}

\* The columns of the combined row at position i that the template maps to
\* the output name sal
Contribuyentes(i, sal) ==
    {c \in DOMAIN df_combined[i].cols :
        \E k \in 1..Len(mapeo_tabla) :
            /\ normalizar_texto(mapeo_tabla[k].entrada) = normalizar_texto(c)
            /\ ValorDe(DictDe(mapeo_tabla), normalizar_texto(c)) = sal}

\* C7: in the report every output column that has contributors holds the sum
\* of the original values of its contributing input columns (a missing value
\* counting as 0), whatever the order of the template's lines.
C7_SumaDeOriginales ==
    (HomTerminado /\ reporte.ok) =>
        \A k \in 1..Len(reporte.rows) : \A sal \in DOMAIN reporte.rows[k].veh :
            Contribuyentes(reporte.rows[k].idx, sal) # {}
                => reporte.rows[k].veh[sal] =
                      SumaCeldas(df_combined[reporte.rows[k].idx].cols,
                                 Contribuyentes(reporte.rows[k].idx, sal))

\* The output names of the template without any contributing column
SalidasSinContribuyentes ==
    {mapeo_tabla[k].salida : k \in 1..Len(mapeo_tabla)} \cap
    {sal \in {mapeo_tabla[k].salida : k \in 1..Len(mapeo_tabla)} :
        \A i \in 1..Len(df_combined) : Contribuyentes(i, sal) = {}}

\* C8: when an output name has no contributing column the report is still
\* written and holds 0 in that column in every row.
C8_ColumnaSinContribuyentes ==
    (HomTerminado /\ df_combined # <<>>) =>
        \A sal \in SalidasSinContribuyentes :
            /\ sal \in {vehiculos_salida(DictDe(mapeo_tabla))[k] :
                          k \in 1..Len(vehiculos_salida(DictDe(mapeo_tabla)))}
            => /\ reporte.written
               /\ \A k \in 1..Len(reporte.rows) :
                     /\ sal \in DOMAIN reporte.rows[k].veh
                     /\ reporte.rows[k].veh[sal] = 0

-----------------------------------------------------------------------------
(* merge_cl_ph.py : the Cross-Source Merger *)

ColTricycle == <<"t", "r", "i">>
ColTRICYCLE == <<"T", "R", "I">>

EnMayusculas(c) == [k \in 1..Len(c) |-> Mayuscula(c[k])]

\* lines 74-85: the text before the first hyphen, trimmed; NaN stays NaN
normalizar_valor_pc(t) ==
    IF t.na THEN t
    ELSE LET s == t.body
             i == Min({k \in 1..Len(s) + 1 : k = Len(s) + 1 \/ s[k] = "-"})
         IN  Txt(0, QuitarBlancosDer(QuitarBlancosIzq(SubSeq(s, 1, i - 1))), 0)

\* lines 105-117: the key columns of either file before the join
NormalizarParaMerge(rows) ==
    [k \in 1..Len(rows) |->
        [rows[k] EXCEPT !.fuente     = normalizar_valor_pc(@),
                        !.intervalo  = Strip(AsStr(@)),
                        !.movimiento = Strip(AsStr(@))]]

\* line 142: pd.to_numeric(..., errors='coerce').fillna(0)
TricycleSinRellenar(v) == v

TricycleNumerico(v) == IF IsNa(v) THEN 0 ELSE v

\* lines 127-132: the rows a family-A row gives in the left join: one per
\* matching family-B row, or one with a missing tricycle
FilasUnidas(a, filasB) ==
    LET m == SelectSeq(filasB, LAMBDA b : /\ b.fuente = a.fuente
                                          /\ b.intervalo = a.intervalo
                                          /\ b.movimiento = a.movimiento)
    IN  IF m = <<>> THEN <<[a EXCEPT !.veh = ConColumna(@, ColTricycle, Null)]>>
        ELSE [k \in 1..Len(m) |->
                [a EXCEPT !.veh = ConColumna(@, ColTricycle, m[k].tricycle)]]

RECURSIVE LeftMerge(_, _)
LeftMerge(filasA, filasB) ==
    IF filasA = <<>> THEN <<>>
    ELSE LeftMerge(SubSeq(filasA, 1, Len(filasA) - 1), filasB)
            \o FilasUnidas(filasA[Len(filasA)], filasB)

\* line 145 and line 219: the column names in upper case
ColumnasEnMayusculas(r) ==
    [r EXCEPT !.veh = [c \in {EnMayusculas(x) : x \in DOMAIN r.veh} |->
                          r.veh[CHOOSE x \in DOMAIN r.veh : EnMayusculas(x) = c]]]

\* lines 87-163: merge_archivos_dia; an exception or an empty join gives None
merge_archivos_dia(filasA, filasB) ==
    LET a == NormalizarParaMerge(filasA)
        b == NormalizarParaMerge(filasB)
        m == LeftMerge(a, b)
    IN  IF \E k \in 1..Len(filasA) : ColTricycle \in DOMAIN filasA[k].veh
        THEN NoFile
        ELSE IF m = <<>> THEN NoFile
        ELSE [written |-> TRUE,
              rows    |-> [k \in 1..Len(m) |->
                              ColumnasEnMayusculas(
                                  [m[k] EXCEPT !.veh[ColTricycle] = TricycleNumerico(@)])]]

\* lines 217-228: a day without family-B file
FilaSoloChileNormalizada(r) ==
    LET u == ColumnasEnMayusculas(r)
    IN  [u EXCEPT !.fuente = normalizar_valor_pc(@),
                  !.veh = ConColumna(@, ColTRICYCLE, 0)]

FilaSoloChile(r) ==
    LET u == ColumnasEnMayusculas(r)
    IN  [u EXCEPT !.veh = ConColumna(@, ColTRICYCLE, 0)]

\* The day-files the Cross-Source Merger may find
PC1A == <<"P", "C", "1", "-", "A">>
PC1B == <<"P", "C", "1", " ", "-", "B">>

FilasChile(cols) ==
    {GapRow(Txt(0, f, 0), Txt(0, Int1, 0), Txt(0, Mov1, 0), v) :
        f \in {PC1A, PC2}, v \in [cols -> {Null, 0, 1}]}
ArchivosChile ==
    SeqsUpTo(FilasChile({ColCar}), MaxFilasA)
        \cup {<<r>> : r \in FilasChile({ColCar, ColTricycle})}

FilasFilipinas ==
    {[fuente |-> Txt(0, f, 0), intervalo |-> Txt(0, Int1, 0),
      movimiento |-> Txt(1, Mov1, 0), tricycle |-> v] :
        f \in {PC1B, PC1}, v \in {Null, 0, 2}}
ArchivosFilipinas ==
    {NoFileB} \cup {[present |-> TRUE, rows |-> rs] :
                        rs \in SeqsUpTo(FilasFilipinas, MaxFilasB)}

CrossInit ==
    /\ stage = "cross"
    /\ data_chile = <<>>
    /\ df_chile \in ArchivosChile
    /\ df_filipinas \in ArchivosFilipinas
    /\ df_merged = NoFile
    /\ xpc = "day"
    /\ GapIdle /\ HomIdle /\ FiIdle

\* main, lines 208-214: the day has a family-B file
MergeConFilipinas ==
    /\ xpc = "day"
    /\ df_filipinas.present
    /\ df_merged' = merge_archivos_dia(df_chile, df_filipinas.rows)
    /\ xpc' = "done"
    /\ UNCHANGED <<stage, data_chile, df_chile, df_filipinas, gapVars, homVars, fiVars, extVars>>

\* main, lines 215-231: the day has no family-B file
ProcesarSoloChile ==
    /\ xpc = "day"
    /\ ~df_filipinas.present
    /\ df_merged' = [written |-> TRUE,
                     rows    |-> [k \in 1..Len(df_chile) |-> FilaSoloChile(df_chile[k])]]
    /\ xpc' = "done"
    /\ UNCHANGED <<stage, data_chile, df_chile, df_filipinas, gapVars, homVars, fiVars, extVars>>

CrossNext == MergeConFilipinas \/ ProcesarSoloChile

SpecCross == CrossInit /\ [][CrossNext]_vars

-----------------------------------------------------------------------------
(* Properties of the Cross-Source Merger *)

CrossTerminado == stage = "cross" /\ xpc = "done"

\* The rows of the family-B file whose normalized key is that of output row r
CoincidentesB(r) ==
    {k \in 1..Len(df_filipinas.rows) :
        /\ normalizar_valor_pc(df_filipinas.rows[k].fuente) = r.fuente
        /\ Strip(AsStr(df_filipinas.rows[k].intervalo)) = r.intervalo
        /\ Strip(AsStr(df_filipinas.rows[k].movimiento)) = r.movimiento}

\* C9: every row of the joined output that no family-B row matches holds 0,
\* not a missing value, in the tracked column.
C9_SinCoincidenciaEsCero ==
    (CrossTerminado /\ df_filipinas.present /\ df_merged.written) =>
        \A k \in 1..Len(df_merged.rows) :
            CoincidentesB(df_merged.rows[k]) = {}
                => /\ ColTRICYCLE \in DOMAIN df_merged.rows[k].veh
                   /\ df_merged.rows[k].veh[ColTRICYCLE] = 0

\* A join was written in which one row found no family-B row and another row
\* took a nonzero tricycle count from the family-B row it matches.
C9_Witness ==
    /\ CrossTerminado /\ df_filipinas.present /\ df_merged.written
    /\ df_filipinas.rows # <<>>
    /\ \E k \in 1..Len(df_merged.rows) :
          /\ CoincidentesB(df_merged.rows[k]) = {}
          /\ df_merged.rows[k].veh[ColTRICYCLE] = 0
    /\ \E k \in 1..Len(df_merged.rows) :
          /\ CoincidentesB(df_merged.rows[k]) # {}
          /\ df_merged.rows[k].veh[ColTRICYCLE] = 2

\* C10: a day without family-B file still gets its completed file, with the
\* tracked column at 0 in every row and every other cell of the family-A rows
\* as it was.
C10_SoloChile ==
    (CrossTerminado /\ ~df_filipinas.present) =>
        /\ df_merged.written
        /\ Len(df_merged.rows) = Len(df_chile)
        /\ \A k \in 1..Len(df_chile) :
              /\ df_merged.rows[k].veh[ColTRICYCLE] = 0
              /\ df_merged.rows[k].fuente = df_chile[k].fuente
              /\ df_merged.rows[k].intervalo = df_chile[k].intervalo
              /\ df_merged.rows[k].movimiento = df_chile[k].movimiento
              /\ \A c \in DOMAIN df_chile[k].veh :
                    c # ColTricycle
                        => df_merged.rows[k].veh[EnMayusculas(c)] = df_chile[k].veh[c]

\* A day without family-B file whose family-A rows carry a composite control
\* point and a nonzero count.
C10_Witness ==
    /\ CrossTerminado /\ ~df_filipinas.present /\ df_merged.written
    /\ \E k \in 1..Len(df_chile) :
          /\ df_chile[k].fuente.body = PC1A
          /\ df_chile[k].veh[ColCar] = 1
          /\ df_merged.rows[k].veh[ColTRICYCLE] = 0

-----------------------------------------------------------------------------
(* main.py : merge_cl_comp.py, merge_cl_ph.py and homologate.py in a row,
   without complementary datasets and without family-B files *)

\* homologate.main, line 245: a completed day-file as pd.read_excel gives it
LeerCompleto(rows) ==
    [k \in 1..Len(rows) |->
        HomRow(rows[k].fuente, rows[k].intervalo, rows[k].movimiento, rows[k].veh)]

\* merge_vehicle_data, lines 118-176, when the list of complementary
\* datasets is empty
SinComplementarios(rows) == NormalizarClaves(rows)

OtroSinPC == <<"Y">>
IntDia2   == <<"d2", "08", "00", "-", "d2", "08", "15">>

\* The raw day-files of the two day folders: within one file and across the
\* two, no two rows have the same source control point, interval and movement
FilasDia(i) ==
    {GapRow(Txt(0, f, 0), Txt(0, i, 0), Txt(0, Mov1, 1), v) :
        f \in {PC1A, PC2, SinPC, OtroSinPC}, v \in [{ColCar} -> {0, 1, 2}]}

SinRepetidos(rs) ==
    \A a, b \in 1..Len(rs) : rs[a].fuente = rs[b].fuente => a = b

ArchivosDia(i) ==
    {rs \in SeqsUpTo(FilasDia(i), MaxFilasDia) : rs # <<>> /\ SinRepetidos(rs)}

PipelineInit ==
    /\ stage = "pipeline"
    /\ carpetas_dias \in {<<a, b>> : a \in ArchivosDia(Int1), b \in ArchivosDia(IntDia2)}
    /\ numero_dia = 0
    /\ base = <<>> /\ df_resultado = <<>> /\ df2 = NoComp
    /\ gpc = "dias"
    /\ CrossIdle /\ FiIdle
    /\ mapeo_tabla = <<[entrada |-> ColCAR, salida |-> SalAUTO]>>
    /\ dfs = <<>>
    /\ df_combined = <<>>
    /\ reporte = NoReporte
    /\ hpc = Idle

\* merge_cl_comp.main, lines 225-251: one day folder
ProcesarDiaBase ==
    /\ gpc = "dias"
    /\ numero_dia < Len(carpetas_dias)
    /\ numero_dia' = numero_dia + 1
    /\ base' = carpetas_dias[numero_dia + 1]
    /\ df_resultado' = SinComplementarios(carpetas_dias[numero_dia + 1])
    /\ data_chile' = IF carpetas_dias[numero_dia + 1] = <<>> THEN data_chile
                     ELSE Append(data_chile,
                                 SinComplementarios(carpetas_dias[numero_dia + 1]))
    /\ UNCHANGED <<stage, carpetas_dias, df2, gpc, df_chile, df_filipinas,
                   df_merged, xpc, homVars, fiVars, extVars>>

\* main.py, lines 73-77: merge_cl_ph.py starts when merge_cl_comp.py ends
TerminarBase ==
    /\ gpc = "dias"
    /\ numero_dia = Len(carpetas_dias)
    /\ gpc' = "done"
    /\ xpc' = "dias"
    /\ UNCHANGED <<stage, carpetas_dias, numero_dia, base, df_resultado, df2,
                   data_chile, df_chile, df_filipinas, df_merged, homVars, fiVars, extVars>>

\* merge_cl_ph.main, lines 205-231: one day, which has no family-B file
ProcesarDiaSoloChile ==
    /\ xpc = "dias"
    /\ data_chile # <<>>
    /\ df_chile' = Head(data_chile)
    /\ data_chile' = Tail(data_chile)
    /\ LET rows == [k \in 1..Len(Head(data_chile)) |-> FilaSoloChile(Head(data_chile)[k])]
       IN  /\ df_merged' = [written |-> TRUE, rows |-> rows]
           /\ dfs' = Append(dfs, LeerCompleto(rows))
    /\ UNCHANGED <<stage, df_filipinas, xpc, gapVars,
                   mapeo_tabla, df_combined, reporte, hpc, fiVars, extVars>>

\* main.py, lines 73-77: homologate.py starts when merge_cl_ph.py ends
TerminarMerge ==
    /\ xpc = "dias"
    /\ data_chile = <<>>
    /\ xpc' = "done"
    /\ hpc' = "load"
    /\ UNCHANGED <<stage, data_chile, df_chile, df_filipinas, df_merged, gapVars,
                   mapeo_tabla, dfs, df_combined, reporte, fiVars, extVars>>

PipelineNext ==
    \/ ProcesarDiaBase
    \/ TerminarBase
    \/ ProcesarDiaSoloChile
    \/ TerminarMerge
    \/ CargarArchivos
    \/ ProcesarDatos
    \/ GuardarReporte

SpecPipeline == PipelineInit /\ [][PipelineNext]_vars

-----------------------------------------------------------------------------
(* Properties of the whole run *)

PipelineTerminado == stage = "pipeline" /\ hpc = "done"

\* The raw records, in day order
Originales == Concatenar(carpetas_dias)

\* The report rows that come from the raw record at position i: the combined
\* table holds the raw records under the labels 1, 2, ... in day order
FilasDe(i) == {k \in 1..Len(reporte.rows) : reporte.rows[k].idx = i}

\* C6: after the run over two raw day-files, the report holds every raw
\* record exactly once, its totals by control point and movement are those
\* of the raw files, and no two of its rows share the identifying key.
C6_ExtremoAExtremo ==
    PipelineTerminado =>
        /\ reporte.written
        /\ \A i \in 1..Len(Originales) : Cardinality(FilasDe(i)) = 1
        /\ \A pc \in {extract_pc_number(Originales[i].fuente) : i \in 1..Len(Originales)} :
              LET enReporte == {k \in 1..Len(reporte.rows) : reporte.rows[k].PC = pc}
                  enOrigen  == {i \in 1..Len(Originales) :
                                   extract_pc_number(Originales[i].fuente) = pc}
              IN  SumaLista([k \in enReporte |-> reporte.rows[k].veh[SalAUTO]], enReporte)
                    = SumaLista([i \in enOrigen |->
                                    IF IsNa(Originales[i].veh[ColCar]) THEN 0
                                    ELSE Originales[i].veh[ColCar]], enOrigen)
        /\ \A a, b \in 1..Len(reporte.rows) :
              ClaveIdentificadora(reporte.rows[a]) = ClaveIdentificadora(reporte.rows[b])
                  => a = b

\* The normalized key of a family-A row as merge_archivos_dia joins on it
ClaveNormalizada(r) ==
    <<normalizar_valor_pc(r.fuente), Strip(AsStr(r.intervalo)), Strip(AsStr(r.movimiento))>>

\* C11: the written join holds each family-A row exactly once, in order:
\* as many rows as the family-A file, the k-th one with the key and the
\* counts of the k-th family-A row, whatever the family-B file holds.
C11_UnaFilaPorFilaDeA ==
    (CrossTerminado /\ df_filipinas.present /\ df_merged.written) =>
        /\ Len(df_merged.rows) = Len(df_chile)
        /\ \A k \in 1..Len(df_chile) :
              /\ <<df_merged.rows[k].fuente, df_merged.rows[k].intervalo,
                   df_merged.rows[k].movimiento>> = ClaveNormalizada(df_chile[k])
              /\ \A c \in DOMAIN df_chile[k].veh :
                    df_merged.rows[k].veh[EnMayusculas(c)] = df_chile[k].veh[c]

\* C12: a written completed day-file has no two rows equal in every column,
\* no missing and no negative value in a vehicle-class column, and a tracked
\* column without missing values.
C12_ReparadoTrasElJoin ==
    (CrossTerminado /\ df_merged.written) =>
        /\ \A a, b \in 1..Len(df_merged.rows) :
              df_merged.rows[a] = df_merged.rows[b] => a = b
        /\ \A k \in 1..Len(df_merged.rows) : \A c \in DOMAIN df_merged.rows[k].veh :
              /\ ~IsNa(df_merged.rows[k].veh[c])
              /\ df_merged.rows[k].veh[c] >= 0

-----------------------------------------------------------------------------
(* interp_tricycles.py : the Interval Corrector and the cadence step *)

\* Timestamps are minutes since the midnight that starts day 0; the text
\* strftime('%m/%d/%Y %H:%M:%S') gives, and pd.to_datetime reads, is the
\* calendar day with the hour and the minute of the day
Instante(d, h, m) == d * 1440 + h * 60 + m
FechaDe(t) == t \div 1440
HoraDelDia(t) == (t % 1440) \div 60
strftime(t) == [dia |-> t \div 1440, hora |-> (t % 1440) \div 60, minuto |-> t % 60]
to_datetime(x) == x.dia * 1440 + x.hora * 60 + x.minuto

\* lines 76-80: replace(year=..., month=..., day=...) keeps the time of day
ReplaceFecha(t, fecha) == fecha * 1440 + (t % 1440)

\* One raw family-B record; idx is its index label in the day-file
FiRow(i, f, m, iv, v) ==
    [idx |-> i, fuente |-> f, movimiento |-> m, intervalo |-> iv, veh |-> v]

\* lines 238-270: cargar_configuracion_fechas: a dict keyed by (control
\* point, date): a repeated key keeps its first place and takes the last value
RECURSIVE cargar_configuracion_fechas(_)
cargar_configuracion_fechas(tabla) ==
    IF tabla = <<>> THEN <<>>
    ELSE LET d == cargar_configuracion_fechas(SubSeq(tabla, 1, Len(tabla) - 1))
             e == tabla[Len(tabla)]
             n == [punto_control |-> e.punto_control, fecha |-> FechaDe(e.fecha_hora),
                   fecha_hora |-> e.fecha_hora]
             w == {i \in 1..Len(d) : /\ d[i].punto_control = n.punto_control
                                     /\ d[i].fecha = n.fecha}
         IN  IF w = {} THEN Append(d, n)
             ELSE [i \in 1..Len(d) |-> IF i \in w THEN n ELSE d[i]]

\* lines 359-365: whether the new anchor replaces the one already held
Reemplaza(actual, nueva) ==
    \/ HoraDelDia(actual) < 22 /\ HoraDelDia(nueva) >= 22
    \/ HoraDelDia(actual) >= 22 /\ HoraDelDia(nueva) >= 22 /\ nueva > actual

\* lines 346-367: the anchors of the file, by control point
RECURSIVE MapeoFechaEspecifica(_, _)
MapeoFechaEspecifica(dict, primera_fecha) ==
    IF dict = <<>> THEN <<>>
    ELSE LET m == MapeoFechaEspecifica(SubSeq(dict, 1, Len(dict) - 1), primera_fecha)
             e == dict[Len(dict)]
             dia_anterior == primera_fecha - 1
         IN  IF e.fecha \notin {primera_fecha, dia_anterior} THEN m
             ELSE IF e.fecha = dia_anterior /\ HoraDelDia(e.fecha_hora) < 22 THEN m
             ELSE IF e.punto_control \in DOMAIN m
                  THEN IF Reemplaza(m[e.punto_control], e.fecha_hora)
                       THEN [m EXCEPT ![e.punto_control] = e.fecha_hora]
                       ELSE m
                  ELSE [p \in DOMAIN m \cup {e.punto_control} |->
                           IF p = e.punto_control THEN e.fecha_hora ELSE m[p]]

\* lines 82-89: the labels of the rows of a group, one after the other
Etiqueta(start) == [ini |-> strftime(start), fin |-> strftime(start + 5)]

IntervalosConHueco(fecha_inicio, n) ==
    [k \in 1..n |-> Etiqueta(fecha_inicio + 10 * (k - 1))]

IntervalosDesde(fecha_inicio, n) ==
    [k \in 1..n |-> Etiqueta(fecha_inicio + 5 * (k - 1))]

\* The positions in rows of the group of (fuente, movimiento), in row order
PosicionesDe(rows, f, m) ==
    {k \in 1..Len(rows) : rows[k].fuente = f /\ rows[k].movimiento = m}

\* How many rows of its group come before position k, itself included
RangoEnGrupo(rows, k) ==
    Cardinality({j \in PosicionesDe(rows, rows[k].fuente, rows[k].movimiento) : j <= k})

\* lines 63-92: corregir_intervalos for the group of the row at position k:
\* the time of day of the anchor on the date of the group's first raw label
FechaInicio(rows, k, mapeo) ==
    LET g == PosicionesDe(rows, rows[k].fuente, rows[k].movimiento)
        fecha_original == FechaDe(to_datetime(rows[Min(g)].intervalo.ini))
    IN  ReplaceFecha(mapeo[rows[k].fuente], fecha_original)

corregir_intervalos(rows, mapeo) ==
    [k \in 1..Len(rows) |->
        LET g == PosicionesDe(rows, rows[k].fuente, rows[k].movimiento)
        IN  [rows[k] EXCEPT !.intervalo =
                IntervalosDesde(FechaInicio(rows, k, mapeo), Cardinality(g))
                    [RangoEnGrupo(rows, k)]]]

\* lines 272-381: procesar_archivo_inicial; an exception gives (None, None)
PrimeraFecha(file) == FechaDe(to_datetime(file.rows[1].intervalo.ini))

procesar_archivo_inicial(file, dict) ==
    IF file.rows = <<>> THEN NoProcesado
    ELSE LET mapeo == MapeoFechaEspecifica(dict, PrimeraFecha(file))
         IN  IF DOMAIN mapeo = {} THEN NoProcesado
             ELSE IF \E k \in 1..Len(file.rows) : file.rows[k].fuente \notin DOMAIN mapeo
                  THEN NoProcesado
             ELSE [ok   |-> TRUE,
                   cols |-> {normalizar_texto(c) : c \in file.cols},
                   rows |-> corregir_intervalos(
                               [k \in 1..Len(file.rows) |->
                                   [file.rows[k] EXCEPT !.veh =
                                       [c \in {normalizar_texto(x) : x \in DOMAIN @} |->
                                           @[CHOOSE x \in DOMAIN @ : normalizar_texto(x) = c]]]],
                               mapeo)]

\* num/den cut to its integer part
Truncar(num, den) == num \div den

\* round() and Series.round(): num/den to the nearest integer, a tie to the
\* even one (num >= 0, den > 0)
Redondear(num, den) ==
    LET q == num \div den
        r == num % den
    IN  IF 2 * r < den THEN q
        ELSE IF 2 * r > den THEN q + 1
        ELSE IF q % 2 = 0 THEN q ELSE q + 1

\* groupby(['fuente de datos', 'movimiento']) visits the groups by sorted key
Grupos(rows) == {<<rows[k].fuente, rows[k].movimiento>> : k \in 1..Len(rows)}

MenorClave(x, y) ==
    \/ MenorTexto(x[1], y[1])
    \/ x[1] = y[1] /\ MenorTexto(x[2], y[2])

RECURSIVE GruposEnOrden(_)
GruposEnOrden(G) ==
    IF G = {} THEN <<>>
    ELSE LET g == CHOOSE x \in G : \A y \in G \ {x} : MenorClave(x, y)
         IN  <<g>> \o GruposEnOrden(G \ {g})

\* grupo.sort_values('intervalo'): the positions of a group by interval text
MenorIntervalo(a, b) ==
    \/ to_datetime(a.ini) < to_datetime(b.ini)
    \/ a.ini = b.ini /\ to_datetime(a.fin) < to_datetime(b.fin)

RECURSIVE PosicionesOrdenadas(_, _)
PosicionesOrdenadas(rows, P) ==
    IF P = {} THEN <<>>
    ELSE LET k == CHOOSE x \in P : \A y \in P \ {x} :
                     \/ MenorIntervalo(rows[x].intervalo, rows[y].intervalo)
                     \/ rows[x].intervalo = rows[y].intervalo /\ x < y
         IN  <<k>> \o PosicionesOrdenadas(rows, P \ {k})

\* lines 139-142: the midnight of the day of the group's first interval
FechaBase(rows, ps) == FechaDe(to_datetime(rows[ps[1]].intervalo.ini)) * 1440

\* lines 153-155: the hour a row's value is filed under: the row's index
\* label in the day-file modulo the size of the group
HoraReal(rows, ps, j) == rows[ps[j]].idx % Len(ps)

\* lines 132 and 152-161: valores_por_hora.get(hora_base, 0) for hour h; a
\* later row of the group overwrites an earlier one filed under the same hour
ValorBase(rows, ps, h) ==
    LET cs == {j \in 1..Len(ps) : HoraReal(rows, ps, j) = h}
    IN  IF cs = {} THEN 0 ELSE rows[ps[Max(cs)]].veh[ColTricycle] * 3

\* lines 163-172: the weight of the quarter, in tenths
Factor10(minuto) ==
    IF minuto = 0 THEN 10 ELSE IF minuto = 15 THEN 7 ELSE IF minuto = 30 THEN 4 ELSE 2

\* lines 144-184: the 96 records of one group
RegistrosHorarios(rows, g) ==
    LET ps == PosicionesOrdenadas(rows, PosicionesDe(rows, g[1], g[2]))
    IN  [b \in 1..96 |->
            LET t     == FechaBase(rows, ps) + 15 * (b - 1)
                valor == Redondear(ValorBase(rows, ps, HoraDelDia(t))
                                       * Factor10(strftime(t).minuto), 10)
            IN  [FUENTE     |-> g[1],
                 MOVIMIENTO |-> g[2],
                 INTERVALO  |-> [ini |-> strftime(t), fin |-> strftime(t + 15)],
                 TRICYCLE   |-> IF valor < 0 THEN 0 ELSE valor]]

\* lines 217-219: the bucket of a row: its index label in the day-file modulo
\* the size of the group
Bucket(rows, ps, j) == rows[ps[j]].idx % Len(ps)

\* lines 204-234: the records of one group, one per row of the group
Registros15min(rows, g, minutos) ==
    LET ps == PosicionesOrdenadas(rows, PosicionesDe(rows, g[1], g[2]))
    IN  [j \in 1..Len(ps) |->
            LET t == FechaBase(rows, ps) + 15 * Bucket(rows, ps, j)
            IN  [FUENTE     |-> g[1],
                 MOVIMIENTO |-> g[2],
                 INTERVALO  |-> [ini |-> strftime(t), fin |-> strftime(t + 15)],
                 TRICYCLE   |-> Redondear(rows[ps[j]].veh[ColTricycle] * 15, minutos)]]

\* sort_values(['FUENTE DE DATOS', 'MOVIMIENTO', 'INTERVALO']): the groups are
\* visited by sorted key, so the sort orders the records of each group by
\* interval text and leaves the groups one after the other
RECURSIVE OrdenarPorIntervalo(_)
OrdenarPorIntervalo(rs) ==
    IF rs = <<>> THEN <<>>
    ELSE LET r    == rs[Len(rs)]
             prev == OrdenarPorIntervalo(SubSeq(rs, 1, Len(rs) - 1))
             n    == Cardinality({i \in 1..Len(prev) :
                                     ~MenorIntervalo(r.INTERVALO, prev[i].INTERVALO)})
         IN  SubSeq(prev, 1, n) \o <<r>> \o SubSeq(prev, n + 1, Len(prev))

\* lines 119-186: interpolar_datos_horarios; the 96 records of a group are
\* built in the order of their interval text, where line 186 leaves them
RECURSIVE RegistrosHorariosDe(_, _)
RegistrosHorariosDe(rows, gs) ==
    IF gs = <<>> THEN <<>>
    ELSE RegistrosHorarios(rows, Head(gs)) \o RegistrosHorariosDe(rows, Tail(gs))

interpolar_datos_horarios(df) ==
    IF ColTricycle \notin df.cols THEN NoFile
    ELSE [written |-> TRUE,
          rows    |-> RegistrosHorariosDe(df.rows, GruposEnOrden(Grupos(df.rows)))]

\* lines 188-236: interpolar_datos_15min
RECURSIVE Registros15minDe(_, _, _)
Registros15minDe(rows, gs, minutos) ==
    IF gs = <<>> THEN <<>>
    ELSE OrdenarPorIntervalo(Registros15min(rows, Head(gs), minutos))
             \o Registros15minDe(rows, Tail(gs), minutos)

interpolar_datos_15min(df, minutos) ==
    IF ColTricycle \notin df.cols THEN NoFile
    ELSE [written |-> TRUE,
          rows    |-> Registros15minDe(df.rows, GruposEnOrden(Grupos(df.rows)), minutos)]

\* lines 108-117: interpolar_datos reads the module's TIPO_MUESTREO
RamaDe(tipo) == IF tipo = "CADA_HORA" THEN "horarios" ELSE "15min"

interpolar_datos(df, tipo, minutos) ==
    IF tipo = "CADA_HORA" THEN interpolar_datos_horarios(df)
    ELSE interpolar_datos_15min(df, minutos)

\* main, lines 385-393: the settings of config.json, or the defaults, are
\* assigned to names local to main; the module's globals are not touched
LeerConfig(c) ==
    IF c.hay THEN [TIPO_MUESTREO |-> c.TIPO_MUESTREO, MINUTOS_MUESTREO |-> c.MINUTOS_MUESTREO]
    ELSE [TIPO_MUESTREO |-> "CADA_HORA", MINUTOS_MUESTREO |-> 5]

\* main, lines 430-437: what is written for a day-file
SalidaDe(proc, tipo, minutos) ==
    IF proc.ok THEN interpolar_datos(proc, tipo, minutos) ELSE NoFile

\* main, lines 428-442: the file processed after this one
Detener(n, total, escrito) == IF escrito THEN n + 1 ELSE total

Continuar(n, total, escrito) == n + 1

\* The family-B day-files: the rows carry their index label
ConIndice(rs) == [k \in 1..Len(rs) |-> [rs[k] EXCEPT !.idx = k - 1]]

FilasFi(fuentes, dias, minutos, cols, valores) ==
    {FiRow(0, f, <<"m1">>, Etiqueta(Instante(d, m \div 60, m % 60)), v) :
        f \in fuentes, d \in dias, m \in minutos, v \in [cols -> valores]}

ArchivosFi(fuentes, dias, minutos, cols, valores, n) ==
    {[cols |-> cols, rows |-> ConIndice(rs)] :
        rs \in SeqsUpTo(FilasFi(fuentes, dias, minutos, cols, valores), n)}

Anclas(fuentes, instantes) ==
    {[punto_control |-> f, fecha_hora |-> t] : f \in fuentes, t \in instantes}

FiInicio ==
    /\ locales = NoLocales /\ n_archivo = 0 /\ mapeo_fecha_especifica = <<>>
    /\ df_procesado = NoProcesado /\ rama = Idle /\ data_filipinas = <<>>
    /\ fpc = "config"
    /\ GapIdle /\ CrossIdle /\ HomIdle /\ ExtIdle

\* One day-file under every small anchor sheet
CorrectorInit ==
    /\ stage = "corrector"
    /\ TIPO_MUESTREO = "CADA_HORA" /\ MINUTOS_MUESTREO = 5
    /\ config = NoConfig
    /\ fecha_inicio_mapping \in
          SeqsUpTo(Anclas({PC1}, {Instante(1, 23, 0), Instante(1, 21, 0),
                                  Instante(2, 6, 0), Instante(2, 23, 55)})
                     \cup Anclas({PC2}, {Instante(1, 23, 0), Instante(2, 6, 0)}),
                   MaxAnclas)
    /\ archivos_excel \in
          {<<[cols |-> {ColTRICYCLE}, rows |-> ConIndice(rs)]>> :
              rs \in SeqsUpTo(FilasFi({PC1}, {2}, {0, 1435}, {ColTRICYCLE}, {1})
                                 \cup FilasFi({PC2}, {2}, {0}, {ColTRICYCLE}, {1}),
                              MaxFilasFi)}
    /\ FiInicio

\* main, lines 385-409
CargarConfiguracion ==
    /\ fpc = "config"
    /\ locales' = LeerConfig(config)
    /\ fpc' = "archivos"
    /\ UNCHANGED <<TIPO_MUESTREO, MINUTOS_MUESTREO, config, fecha_inicio_mapping,
                   archivos_excel, n_archivo, mapeo_fecha_especifica, df_procesado,
                   rama, data_filipinas, stage, gapVars, crossVars, homVars, extVars>>

\* main, lines 428-442: one day-file
ProcesarArchivo ==
    /\ fpc = "archivos"
    /\ n_archivo < Len(archivos_excel)
    /\ LET file == archivos_excel[n_archivo + 1]
           dict == cargar_configuracion_fechas(fecha_inicio_mapping)
           proc == procesar_archivo_inicial(file, dict)
           out  == SalidaDe(proc, TIPO_MUESTREO, MINUTOS_MUESTREO)
       IN  /\ mapeo_fecha_especifica' =
                 IF file.rows = <<>> THEN <<>>
                 ELSE MapeoFechaEspecifica(dict, PrimeraFecha(file))
           /\ df_procesado' = proc
           /\ rama' = IF proc.ok THEN RamaDe(TIPO_MUESTREO) ELSE Idle
           /\ data_filipinas' = Append(data_filipinas, out)
           /\ n_archivo' = Continuar(n_archivo, Len(archivos_excel), out.written)
    /\ UNCHANGED <<TIPO_MUESTREO, MINUTOS_MUESTREO, config, locales,
                   fecha_inicio_mapping, archivos_excel, fpc,
                   stage, gapVars, crossVars, homVars, extVars>>

\* main, lines 425-428: no day-file is left
TerminarArchivos ==
    /\ fpc = "archivos"
    /\ n_archivo = Len(archivos_excel)
    /\ fpc' = "done"
    /\ UNCHANGED <<TIPO_MUESTREO, MINUTOS_MUESTREO, config, locales,
                   fecha_inicio_mapping, archivos_excel, n_archivo,
                   mapeo_fecha_especifica, df_procesado, rama, data_filipinas,
                   stage, gapVars, crossVars, homVars, extVars>>

FiNext == CargarConfiguracion \/ ProcesarArchivo \/ TerminarArchivos

SpecCorrector == CorrectorInit /\ [][FiNext]_vars

-----------------------------------------------------------------------------
(* Properties of the Interval Corrector and of the cadence step *)

Corregido == stage = "corrector" /\ df_procesado.ok

\* The position of the next row of the group of the row at position k, or 0
SiguienteEnGrupo(rows, k) ==
    LET later == {j \in PosicionesDe(rows, rows[k].fuente, rows[k].movimiento) : j > k}
    IN  IF later = {} THEN 0 ELSE Min(later)

\* C13: in a corrected day-file every row's interval lasts 5 minutes and ends
\* where the interval of the next row of its group starts, whatever the order
\* and the raw labels of the rows.
C13_IntervalosConsecutivos ==
    Corregido =>
        \A k \in 1..Len(df_procesado.rows) :
            LET rows == df_procesado.rows
                j    == SiguienteEnGrupo(rows, k)
            IN  /\ to_datetime(rows[k].intervalo.fin) = to_datetime(rows[k].intervalo.ini) + 5
                /\ j # 0 => /\ rows[j].intervalo.ini = rows[k].intervalo.fin
                            /\ to_datetime(rows[j].intervalo.ini)
                                  > to_datetime(rows[k].intervalo.ini)

\* A group of two rows that are not neighbours in the file, the raw label of
\* the first later than that of the second, relabeled across a midnight.
C13_Witness ==
    /\ Corregido
    /\ \E k \in 1..Len(df_procesado.rows) :
          LET rows == df_procesado.rows
              raw  == archivos_excel[1].rows
              j    == SiguienteEnGrupo(rows, k)
          IN  /\ j > k + 1
              /\ to_datetime(raw[k].intervalo.ini) > to_datetime(raw[j].intervalo.ini)
              /\ rows[k].intervalo.ini.dia < rows[j].intervalo.ini.dia
              /\ rows[j].intervalo.ini = rows[k].intervalo.fin

\* The anchor the map holds for a control point on a date, as a set
AnclaDe(dict, pc, fecha) ==
    {dict[i].fecha_hora : i \in {j \in 1..Len(dict) :
                                    dict[j].punto_control = pc /\ dict[j].fecha = fecha}}

ArchivoLeido == stage = "corrector" /\ n_archivo >= 1 /\ archivos_excel[1].rows # <<>>

\* C14: for every control point of the day-file the anchor used is the one
\* the map holds for the date of the first record when there is one, and
\* otherwise the one of the preceding date when its hour is 22 or later.
C14_AnclaDelMismoDia ==
    ArchivoLeido =>
        LET file  == archivos_excel[1]
            dict  == cargar_configuracion_fechas(fecha_inicio_mapping)
            fecha == PrimeraFecha(file)
        IN  \A pc \in {file.rows[k].fuente : k \in 1..Len(file.rows)} :
                LET mismo == AnclaDe(dict, pc, fecha)
                    antes == {t \in AnclaDe(dict, pc, fecha - 1) : HoraDelDia(t) >= 22}
                IN  /\ mismo # {} => /\ pc \in DOMAIN mapeo_fecha_especifica
                                     /\ mapeo_fecha_especifica[pc] \in mismo
                    /\ (mismo = {} /\ antes # {})
                           => /\ pc \in DOMAIN mapeo_fecha_especifica
                              /\ mapeo_fecha_especifica[pc] \in antes

\* C15: in a corrected day-file the k-th row of a group, counted from 0, is
\* labeled from the anchor resolved for its control point plus 5k minutes to
\* 5 minutes later, the anchor taken with its own calendar date.
C15_DesdeElAncla ==
    Corregido =>
        \A k \in 1..Len(df_procesado.rows) :
            LET rows  == df_procesado.rows
                ancla == mapeo_fecha_especifica[rows[k].fuente]
                start == ancla + 5 * (RangoEnGrupo(rows, k) - 1)
            IN  /\ rows[k].intervalo.ini = strftime(start)
                /\ rows[k].intervalo.fin = strftime(start + 5)

\* A run over MaxArchivos day-files of days 2 to 4, with or without the
\* tracked column, under an anchor sheet that has both control points on day
\* 3, only PC1 on day 2 and neither on day 4
ArchivosConFallos ==
    UNION {ArchivosFi({PC1, PC2}, {d}, {0}, {ColTRICYCLE}, {1}, 2) : d \in {2, 3}}
        \cup ArchivosFi({PC1, PC2}, {4}, {0}, {ColTRICYCLE}, {1}, 1)
        \cup ArchivosFi({PC1, PC2}, {3}, {0}, {ColCAR}, {1}, 1)

FallosInit ==
    /\ stage = "fallos"
    /\ TIPO_MUESTREO = "CADA_HORA" /\ MINUTOS_MUESTREO = 5
    /\ config = NoConfig
    /\ fecha_inicio_mapping = <<[punto_control |-> PC1, fecha_hora |-> Instante(2, 0, 0)],
                                [punto_control |-> PC1, fecha_hora |-> Instante(3, 0, 0)],
                                [punto_control |-> PC2, fecha_hora |-> Instante(3, 0, 0)]>>
    /\ archivos_excel \in [1..MaxArchivos -> ArchivosConFallos]
    /\ FiInicio

SpecFallos == FallosInit /\ [][FiNext]_vars

\* a control point of the day-file has no anchor of the file's date and none
\* of the preceding date at or after 22:00
SinAncla(file) ==
    \E k \in 1..Len(file.rows) :
        ~\E a \in 1..Len(fecha_inicio_mapping) :
            LET t == fecha_inicio_mapping[a].fecha_hora
            IN  /\ fecha_inicio_mapping[a].punto_control = file.rows[k].fuente
                /\ \/ FechaDe(t) = PrimeraFecha(file)
                   \/ FechaDe(t) = PrimeraFecha(file) - 1 /\ HoraDelDia(t) >= 22

SinColumna(file) == ColTRICYCLE \notin file.cols

Falla(file) == file.rows = <<>> \/ SinAncla(file) \/ SinColumna(file)

\* C16: a day-file with a group that has no resolvable anchor, or without the
\* tracked column, gets no output file, and every other day-file of the run
\* is still processed and its output written.
C16_FalloAislado ==
    /\ stage = "fallos" =>
          \A i \in 1..Len(data_filipinas) :
              Falla(archivos_excel[i]) => ~data_filipinas[i].written
    /\ (stage = "fallos" /\ fpc = "done") =>
          /\ Len(data_filipinas) = Len(archivos_excel)
          /\ \A i \in 1..Len(archivos_excel) :
                ~Falla(archivos_excel[i]) => data_filipinas[i].written

C16_Witness ==
    /\ stage = "fallos" /\ fpc = "done"
    /\ archivos_excel[1].rows # <<>>
    /\ SinAncla(archivos_excel[1]) /\ ~SinColumna(archivos_excel[1])
    /\ ~data_filipinas[1].written
    /\ data_filipinas[2].written

\* The run configurations: no config.json, or one naming a cadence
Configuraciones ==
    {NoConfig,
     [hay |-> TRUE, TIPO_MUESTREO |-> "CADA_HORA", MINUTOS_MUESTREO |-> 5]}
    \cup {[hay |-> TRUE, TIPO_MUESTREO |-> "CADA_15_MIN", MINUTOS_MUESTREO |-> m] :
             m \in {5, 10}}

\* One day-file of day 2, both control points anchored at its midnight, under
\* every run configuration
CadenciaInit ==
    /\ stage = "cadencia"
    /\ TIPO_MUESTREO = "CADA_HORA" /\ MINUTOS_MUESTREO = 5
    /\ config \in Configuraciones
    /\ fecha_inicio_mapping = <<[punto_control |-> PC1, fecha_hora |-> Instante(2, 0, 0)],
                                [punto_control |-> PC2, fecha_hora |-> Instante(2, 0, 0)]>>
    /\ archivos_excel \in
          {<<a>> : a \in ArchivosFi({PC1, PC2}, {2}, {0}, {ColTRICYCLE}, {1, 2},
                                    MaxFilasFi)}
    /\ FiInicio

SpecCadencia == CadenciaInit /\ [][FiNext]_vars

Interpolado == stage = "cadencia" /\ n_archivo >= 1 /\ df_procesado.ok

\* C17: the day-file is processed by the branch the run's configuration
\* names: the 15-minute branch with factor 15/m when it says CADA_15_MIN with
\* m minutes per sample, the hourly branch when it says CADA_HORA.
C17_RamaDeLaConfiguracion ==
    Interpolado =>
        /\ rama = (IF locales.TIPO_MUESTREO = "CADA_15_MIN" THEN "15min" ELSE "horarios")
        /\ data_filipinas[n_archivo] =
              (IF locales.TIPO_MUESTREO = "CADA_15_MIN"
               THEN interpolar_datos_15min(df_procesado, locales.MINUTOS_MUESTREO)
               ELSE interpolar_datos_horarios(df_procesado))

\* the raw value of the record a group has for hour h: its h-th record in
\* interval order, counted from 0
ValorDeHora(rows, ps, h) ==
    IF h + 1 <= Len(ps) THEN rows[ps[h + 1]].veh[ColTricycle] ELSE 0

RegistrosDelGrupo(out, g) ==
    LET EsDelGrupo(r) == r.FUENTE = g[1] /\ r.MOVIMIENTO = g[2]
    IN  SelectSeq(out, EsDelGrupo)

\* C18: under the hourly cadence the output of every group is the 96
\* consecutive 15-minute buckets of its day, and the bucket at minute
\* 0/15/30/45 of hour h holds max(0, round(w * 3 * v_h)) with w = 1.0, 0.7,
\* 0.4, 0.2 and v_h the group's raw value for hour h, 0 when it has none.
C18_HorarioPonderado ==
    (Interpolado /\ rama = "horarios") =>
        \A g \in Grupos(df_procesado.rows) :
            LET rows == df_procesado.rows
                ps   == PosicionesOrdenadas(rows, PosicionesDe(rows, g[1], g[2]))
                rs   == RegistrosDelGrupo(data_filipinas[n_archivo].rows, g)
            IN  /\ Len(rs) = 96
                /\ \A b \in 1..96 :
                      LET t   == FechaBase(rows, ps) + 15 * (b - 1)
                          w10 == <<10, 7, 4, 2>>[((b - 1) % 4) + 1]
                          v   == ValorDeHora(rows, ps, (b - 1) \div 4)
                          e   == Redondear(w10 * 3 * v, 10)
                      IN  /\ rs[b].INTERVALO = [ini |-> strftime(t), fin |-> strftime(t + 15)]
                          /\ rs[b].TRICYCLE = (IF e < 0 THEN 0 ELSE e)
                          /\ rs[b].TRICYCLE \in Nat

\* interpolar_datos_15min over one day-file of day 2, both control points
\* anchored at its midnight, with the module's TIPO_MUESTREO of line 16 and
\* each sampling period MINUTOS_MUESTREO of 4, 5 and 10 minutes
QuinceInit ==
    /\ stage = "quince"
    /\ TIPO_MUESTREO = "CADA_15_MIN" /\ MINUTOS_MUESTREO \in {4, 5, 10}
    /\ config = NoConfig
    /\ fecha_inicio_mapping = <<[punto_control |-> PC1, fecha_hora |-> Instante(2, 0, 0)],
                                [punto_control |-> PC2, fecha_hora |-> Instante(2, 0, 0)]>>
    /\ archivos_excel \in
          {<<a>> : a \in ArchivosFi({PC1, PC2}, {2}, {0}, {ColTRICYCLE}, {1, 2, 3},
                                    MaxFilasFi)}
    /\ FiInicio

SpecQuince == QuinceInit /\ [][FiNext]_vars

Ajustado == stage = "quince" /\ n_archivo >= 1 /\ df_procesado.ok /\ rama = "15min"

\* C19: under the 15-minute cadence the i-th record of a group in interval
\* order, counted from 0, goes to the bucket from midnight + 15i minutes to
\* midnight + 15(i+1) minutes, wherever the group's rows are in the day-file.
C19_CubetasEnOrden ==
    Ajustado =>
        \A g \in Grupos(df_procesado.rows) :
            LET rows == df_procesado.rows
                ps   == PosicionesOrdenadas(rows, PosicionesDe(rows, g[1], g[2]))
                rs   == RegistrosDelGrupo(data_filipinas[n_archivo].rows, g)
            IN  /\ Len(rs) = Len(ps)
                /\ \A i \in 1..Len(ps) :
                      LET t == FechaBase(rows, ps) + 15 * (i - 1)
                      IN  /\ rs[i].INTERVALO = [ini |-> strftime(t), fin |-> strftime(t + 15)]
                          /\ rs[i].TRICYCLE =
                                Redondear(rows[ps[i]].veh[ColTricycle] * 15, MINUTOS_MUESTREO)

Abs(x) == IF x < 0 THEN -x ELSE x

Permutaciones(n) == {p \in [1..n -> 1..n] : \A i, j \in 1..n : p[i] = p[j] => i = j}

-----------------------------------------------------------------------------
(* merge_cl_comp.py : main over the base files of the day folders, with the
   date and the day name merge_vehicle_data takes from the location text.
   A location text is a record [na, palabras]: na marks a missing cell and
   palabras are its words, each a sequence of characters, the words being
   separated by single blanks. *)

Loc(ws) == [na |-> FALSE, palabras |-> ws]
NaLoc == [na |-> TRUE, palabras |-> <<>>]

WDia        == <<"D", "i", "a">>
WNumero     == <<"3">>
WGuion      == <<"-">>
WLaboral    == <<"L">>
WFechaLarga == <<"2", "9", ".", "0", "1", ".", "2", "0", "2", "5">>
WFechaCorta == <<"2", "9", ".", "0", "1">>
WFechaMala  == <<"2", "9", ".", "1">>

\* datetime.now().strftime("%d-%m") of line 96, on the day of the run
FechaActual == <<"0", "3", "-", "1", "1">>

\* line 81: \d{2}\.\d{2} at character j of the word w, and the optional
\* (?:\.\d{4}) after it
FechaEn(w, j) ==
    /\ j + 4 <= Len(w)
    /\ w[j] \in Digitos /\ w[j + 1] \in Digitos /\ w[j + 2] = "."
    /\ w[j + 3] \in Digitos /\ w[j + 4] \in Digitos

AnioEn(w, j) ==
    /\ j + 9 <= Len(w)
    /\ w[j + 5] = "."
    /\ \A k \in 6..9 : w[j + k] \in Digitos

\* line 81: re.search gives the leftmost date token, <<word, character>>
PosicionesFecha(ws) ==
    {p \in UNION {{<<i, j>> : j \in 1..Len(ws[i])} : i \in 1..Len(ws)} :
        FechaEn(ws[p[1]], p[2])}

PrimeraPosicion(P) ==
    CHOOSE p \in P : \A q \in P : p[1] < q[1] \/ (p[1] = q[1] /\ p[2] <= q[2])

\* line 83: group(1).replace('.', '-')[:5]
FechaDDMM(w, j) == <<w[j], w[j + 1], "-", w[j + 3], w[j + 4]>>

\* lines 85-86 and 90-93: (.*?)(?:\s+|$) after the text matched up to
\* character j of word i: what is left of the word, else the next word,
\* else the empty text
PalabraSiguiente(ws, i, j) ==
    IF j < Len(ws[i]) THEN SubSeq(ws[i], j + 1, Len(ws[i]))
    ELSE IF i < Len(ws) THEN ws[i + 1]
    ELSE <<>>

EsNumero(w) == w # <<>> /\ \A k \in 1..Len(w) : w[k] \in Digitos

TerminaEnDia(w) ==
    Len(w) >= 3 /\ SubSeq(w, Len(w) - 2, Len(w)) = WDia

\* line 90: 'Dia (\d+)\s*-\s*' with the number and the hyphen as words of
\* their own, which is how the words above are written
PosicionesDia(ws) ==
    {i \in 1..Len(ws) - 2 :
        /\ TerminaEnDia(ws[i])
        /\ EsNumero(ws[i + 1])
        /\ ws[i + 2] # <<>> /\ ws[i + 2][1] = "-"}

\* lines 73-103: the date and the day name of the file, or the exception
SinFecha == [ok |-> FALSE, fecha |-> <<>>, nombre_dia |-> <<>>]

ExtraerFecha(loc) ==
    IF loc.na THEN SinFecha
    ELSE LET ws == loc.palabras
         IN  IF PosicionesFecha(ws) # {}
             THEN LET p == PrimeraPosicion(PosicionesFecha(ws))
                      w == ws[p[1]]
                      e == IF AnioEn(w, p[2]) THEN p[2] + 9 ELSE p[2] + 4
                  IN  [ok         |-> TRUE,
                       fecha      |-> FechaDDMM(w, p[2]),
                       nombre_dia |-> PalabraSiguiente(ws, p[1], e)]
             ELSE IF PosicionesDia(ws) # {}
             THEN LET i == Min(PosicionesDia(ws))
                  IN  [ok         |-> TRUE,
                       fecha      |-> FechaActual,
                       nombre_dia |-> PalabraSiguiente(ws, i + 2, 1)]
             ELSE SinFecha

\* lines 60-180 without complementary datasets: the dataset and the names,
\* or the exception (an empty sheet has no first row)
merge_vehicle_data(archivo) ==
    IF archivo.rows = <<>> THEN [ok |-> FALSE, rows |-> <<>>, nombres |-> SinFecha]
    ELSE LET f == ExtraerFecha(archivo.localizacion)
         IN  IF f.ok THEN [ok |-> TRUE, rows |-> SinComplementarios(archivo.rows), nombres |-> f]
             ELSE [ok |-> FALSE, rows |-> <<>>, nombres |-> SinFecha]

\* lines 237-238: the path of the output file
RutaChile(numero, nombres) ==
    [carpeta |-> "data_chile", numero_dia |-> numero,
     nombre_dia |-> nombres.nombre_dia, fecha |-> nombres.fecha]

Localizaciones ==
    {NaLoc,
     Loc(<<WDia, WNumero, WGuion, WLaboral, WFechaLarga>>),
     Loc(<<WDia, WNumero, WGuion, WLaboral, WFechaCorta>>),
     Loc(<<WDia, WNumero, WGuion, WLaboral, WFechaMala>>),
     Loc(<<WDia, WNumero, WGuion, WLaboral>>),
     Loc(<<WDia, WLaboral>>),
     Loc(<<WLaboral>>),
     Loc(<<WFechaLarga, WLaboral>>)}

\* The base files of the run, by day folder; a folder may hold several
ArchivosPrincipales ==
    {[numero_dia |-> n, localizacion |-> l, rows |-> rs] :
        n \in {1, 2}, l \in Localizaciones,
        rs \in {<<>>, <<GapRow(Txt(0, PC1, 0), Txt(0, Int1, 0), Txt(0, Mov1, 0),
                               [c \in VehCols |-> 1])>>}}

PrincipalesInit ==
    /\ stage = "principales"
    /\ archivos_principales \in
          {fs \in [1..MaxArchivos -> ArchivosPrincipales] :
              \A i \in 1..MaxArchivos - 1 : fs[i].numero_dia <= fs[i + 1].numero_dia}
    /\ n_principal = 0
    /\ archivos_salida = <<>>
    /\ GapIdle /\ CrossIdle /\ HomIdle
    /\ PeaIdle /\ RunIdle /\ SesIdle /\ NormIdle
    /\ TIPO_MUESTREO = "CADA_HORA" /\ MINUTOS_MUESTREO = 5
    /\ config = NoConfig /\ locales = NoLocales
    /\ fecha_inicio_mapping = <<>> /\ archivos_excel = <<>> /\ n_archivo = 0
    /\ mapeo_fecha_especifica = <<>> /\ df_procesado = NoProcesado /\ rama = Idle
    /\ data_filipinas = <<>> /\ fpc = Idle

\* main, lines 225-251: one base file
ProcesarArchivoPrincipal ==
    /\ stage = "principales"
    /\ n_principal < Len(archivos_principales)
    /\ LET archivo   == archivos_principales[n_principal + 1]
           resultado == merge_vehicle_data(archivo)
       IN  archivos_salida' =
               IF resultado.ok /\ resultado.rows # <<>>
               THEN Append(archivos_salida,
                           [ruta    |-> RutaChile(archivo.numero_dia, resultado.nombres),
                            archivo |-> n_principal + 1,
                            rows    |-> resultado.rows])
               ELSE archivos_salida
    /\ n_principal' = n_principal + 1
    /\ UNCHANGED <<stage, archivos_principales, gapVars, crossVars, homVars, fiVars,
                   peaVars, runVars, sesVars, normVars>>

PrincipalesNext == ProcesarArchivoPrincipal

SpecPrincipales == PrincipalesInit /\ [][PrincipalesNext]_vars

\* the location text has a date token DD.MM or DD.MM.YYYY
TieneFecha(loc) ==
    /\ ~loc.na
    /\ \E i \in 1..Len(loc.palabras) : \E j \in 1..Len(loc.palabras[i]) :
          FechaEn(loc.palabras[i], j)

SalidasDe(i) == {k \in 1..Len(archivos_salida) : archivos_salida[k].archivo = i}

\* C21: a base file whose first location text has no date token DD.MM or
\* DD.MM.YYYY makes merge_vehicle_data fail, and no gap-filled file is
\* written for it.
C21_SinFechaNoHaySalida ==
    stage = "principales" =>
        \A i \in 1..n_principal :
            ~TieneFecha(archivos_principales[i].localizacion) => SalidasDe(i) = {}

-----------------------------------------------------------------------------
(* homologate.py : the order of the final report *)

Mov2       == <<"m2">>
IntDia2Mas == <<"d2", "08", "15", "-", "d2", "08", "30">>

\* Completed day-files whose rows differ in day, control point, movement and
\* start time, in every order
FilasOrden ==
    {HomRow(Txt(0, PC1, 0), Txt(0, Int1, 0), Txt(0, Mov1, 0), [c \in {ColCAR} |-> 1]),
     HomRow(Txt(0, PC1, 0), Txt(0, Int2, 0), Txt(0, Mov1, 0), [c \in {ColCAR} |-> 1]),
     HomRow(Txt(0, PC1, 0), Txt(0, Int1, 0), Txt(0, Mov2, 0), [c \in {ColCAR} |-> 1]),
     HomRow(Txt(0, PC2, 0), Txt(0, Int1, 0), Txt(0, Mov1, 0), [c \in {ColCAR} |-> 1]),
     HomRow(Txt(0, SinPC, 0), Txt(0, Int1, 0), Txt(0, Mov1, 0), [c \in {ColCAR} |-> 1]),
     HomRow(Txt(0, PC1, 0), Txt(0, IntDia2, 0), Txt(0, Mov1, 0), [c \in {ColCAR} |-> 1]),
     HomRow(Txt(0, PC2, 0), Txt(0, IntDia2Mas, 0), Txt(0, Mov2, 0), [c \in {ColCAR} |-> 1])}

OrdenInit ==
    /\ stage = "orden"
    /\ mapeo_tabla = <<[entrada |-> ColCAR, salida |-> SalAUTO]>>
    /\ dfs \in {<<rs>> : rs \in SeqsUpTo(FilasOrden, MaxFilas) \ {<<>>}}
    /\ df_combined = <<>>
    /\ reporte = NoReporte
    /\ hpc = "load"
    /\ GapIdle /\ CrossIdle /\ FiIdle

SpecOrden == OrdenInit /\ [][HomNext]_vars

\* a before or equal to b by (calendar day, control point, movement, start
\* time), a report row without control point after those of its day that
\* have one
TuplaMenorIgual(a, b) ==
    \/ a.FECHA < b.FECHA
    \/ /\ a.FECHA = b.FECHA
       /\ \/ a.PC # <<>> /\ b.PC = <<>>
          \/ a.PC # <<>> /\ b.PC # <<>> /\ MenorTexto(a.PC, b.PC)
          \/ /\ a.PC = b.PC
             /\ \/ MenorTexto(TextoChars(a.MOVIMIENTO), TextoChars(b.MOVIMIENTO))
                \/ /\ a.MOVIMIENTO = b.MOVIMIENTO
                   /\ a.HORA_INICIO[1] * 60 + a.HORA_INICIO[2]
                         <= b.HORA_INICIO[1] * 60 + b.HORA_INICIO[2]

\* C22: the final report is in ascending order of (calendar date, control
\* point, movement, start time): of two consecutive rows the first is before
\* or equal to the second, 29-01-2025 coming before 01-02-2025.
C22_ReporteOrdenado ==
    (stage = "orden" /\ reporte.ok) =>
        \A k \in 1..Len(reporte.rows) - 1 :
            TuplaMenorIgual(reporte.rows[k], reporte.rows[k + 1])

C22_Witness ==
    /\ stage = "orden" /\ hpc = "done" /\ reporte.written
    /\ Len(reporte.rows) = 3
    /\ reporte.rows[1].FECHA = 1 /\ reporte.rows[3].FECHA = 2
    /\ reporte.rows[1].idx = 3 /\ reporte.rows[3].idx = 1

-----------------------------------------------------------------------------
(* homologate_pedestrians.py : the pedestrian Homologator *)

PeaRow(f, i, m, p) == [FUENTE |-> f, INTERVALO |-> i, MOVIMIENTO |-> m, persona |-> p]

IntMalo == <<"d1", "08", "-", "d1", "08", "15">>

\* strftime('%H:%M:%S') of line 93, as <<hour, minute>>
HoraTexto(toks) == <<HoraDe(toks[2]), MinutoDe(toks[3])>>

\* lines 77-101: the columns of the row at index label k of the file, the
\* control point being the source text as it stands
CamposPeaton(r, k) ==
    LET ini == ParteInicio(r.INTERVALO)
        fin == ParteFin(r.INTERVALO)
    IN  [idx          |-> k,
         PC           |-> r.FUENTE,
         INTERSECCION |-> IF r.FUENTE.na THEN <<>> ELSE mapeo_calles(TextoChars(r.FUENTE)),
         FECHA        |-> FechaTexto(DiaDe(ini[1])),
         HORA_INICIO  |-> HoraTexto(ini),
         HORA_TERMINO |-> HoraTexto(fin),
         MOVIMIENTO   |-> r.MOVIMIENTO,
         CUARTO       |-> <<HoraDe(ini[2]), (MinutoDe(ini[3]) \div 15) + 1>>,
         PERSONA      |-> r.persona]

\* line 107: the columns the file is sorted and deduplicated by
ClaveDeOrden(r) == <<r.PC, r.MOVIMIENTO, r.FECHA, r.HORA_INICIO>>

\* lines 106-108: -1, 0 or 1 by (pc, movimiento, fecha, hora inicio), the
\* date compared as the text DD-MM-YYYY, a missing value after every present
CompararPeaton(a, b) ==
    LET pA == TextoChars(a.PC)
        pB == TextoChars(b.PC)
        mA == TextoChars(a.MOVIMIENTO)
        mB == TextoChars(b.MOVIMIENTO)
    IN  IF a.PC.na # b.PC.na THEN (IF b.PC.na THEN -1 ELSE 1)
        ELSE IF pA # pB THEN (IF MenorTexto(pA, pB) THEN -1 ELSE 1)
        ELSE IF a.MOVIMIENTO.na # b.MOVIMIENTO.na THEN (IF b.MOVIMIENTO.na THEN -1 ELSE 1)
        ELSE IF mA # mB THEN (IF MenorTexto(mA, mB) THEN -1 ELSE 1)
        ELSE IF a.FECHA # b.FECHA THEN (IF MenorTexto(a.FECHA, b.FECHA) THEN -1 ELSE 1)
        ELSE IF a.HORA_INICIO # b.HORA_INICIO
             THEN (IF \/ a.HORA_INICIO[1] < b.HORA_INICIO[1]
                      \/ /\ a.HORA_INICIO[1] = b.HORA_INICIO[1]
                         /\ a.HORA_INICIO[2] < b.HORA_INICIO[2]
                   THEN -1 ELSE 1)
        ELSE 0

RECURSIVE OrdenarPeatones(_)
OrdenarPeatones(rows) ==
    IF rows = <<>> THEN <<>>
    ELSE LET r    == rows[Len(rows)]
             prev == OrdenarPeatones(SubSeq(rows, 1, Len(rows) - 1))
             n    == Cardinality({i \in 1..Len(prev) : CompararPeaton(prev[i], r) <= 0})
         IN  SubSeq(prev, 1, n) \o <<r>> \o SubSeq(prev, n + 1, Len(prev))

\* lines 108-111: drop_duplicates(subset=..., keep='first')
PrimerosPorClave(rows) ==
    SelectSeq([i \in 1..Len(rows) |-> [pos |-> i, fila |-> rows[i]]],
              LAMBDA e : \A j \in 1..e.pos - 1 :
                             ClaveDeOrden(rows[j]) # ClaveDeOrden(e.fila))

NoTabla == [ok |-> FALSE, rows |-> <<>>]

\* lines 63-123: the table of one file, or the exception
procesar_datos_peatones(archivo) ==
    IF \E i \in 1..Len(archivo) : ~IntervaloValido(archivo[i].INTERVALO) THEN NoTabla
    ELSE LET campos   == [i \in 1..Len(archivo) |-> CamposPeaton(archivo[i], i)]
             primeros == PrimerosPorClave(OrdenarPeatones(campos))
         IN  [ok |-> TRUE, rows |-> [i \in 1..Len(primeros) |-> primeros[i].fila]]

\* Pedestrian files whose rows repeat keys within a file and across files,
\* and a file with a malformed interval
FilasPeaton ==
    {PeaRow(Txt(0, PC1A, 0), Txt(0, Int1, 0), Txt(0, Mov1, 0), 1),
     PeaRow(Txt(0, PC1A, 0), Txt(0, Int1, 0), Txt(0, Mov1, 0), 2),
     PeaRow(Txt(0, PC1A, 0), Txt(0, IntDia2, 0), Txt(0, Mov1, 0), 1)}

ArchivosPeatones ==
    SeqsUpTo(FilasPeaton, MaxFilasPeaton)
        \cup {<<PeaRow(Txt(0, PC1A, 0), Txt(0, IntMalo, 0), Txt(0, Mov1, 0), 1)>>}

PeatonesInit ==
    /\ stage = "peatones"
    /\ archivos_peatones \in UNION {[1..n -> ArchivosPeatones] : n \in 1..MaxArchivos}
    /\ n_peaton = 0
    /\ dfs_peatones = <<>>
    /\ reporte_peatones = NoReporte
    /\ GapIdle /\ CrossIdle /\ HomIdle /\ PriIdle /\ RunIdle /\ SesIdle /\ NormIdle
    /\ TIPO_MUESTREO = "CADA_HORA" /\ MINUTOS_MUESTREO = 5
    /\ config = NoConfig /\ locales = NoLocales
    /\ fecha_inicio_mapping = <<>> /\ archivos_excel = <<>> /\ n_archivo = 0
    /\ mapeo_fecha_especifica = <<>> /\ df_procesado = NoProcesado /\ rama = Idle
    /\ data_filipinas = <<>> /\ fpc = Idle

\* main, lines 147-154: one file; the table is kept when it has rows
ProcesarArchivoPeatones ==
    /\ stage = "peatones"
    /\ n_peaton < Len(archivos_peatones)
    /\ LET df == procesar_datos_peatones(archivos_peatones[n_peaton + 1])
       IN  dfs_peatones' =
               IF df.ok /\ df.rows # <<>>
               THEN Append(dfs_peatones,
                           [i \in 1..Len(df.rows) |->
                               [archivo |-> n_peaton + 1, fila |-> df.rows[i]]])
               ELSE dfs_peatones
    /\ n_peaton' = n_peaton + 1
    /\ UNCHANGED <<stage, archivos_peatones, reporte_peatones, gapVars, crossVars,
                   homVars, fiVars, priVars, runVars, sesVars, normVars>>

\* main, lines 156-166: pd.concat of the tables, written as the report
GuardarReportePeatones ==
    /\ stage = "peatones"
    /\ n_peaton = Len(archivos_peatones)
    /\ ~reporte_peatones.written
    /\ dfs_peatones # <<>>
    /\ reporte_peatones' = [ok |-> TRUE, written |-> TRUE, rows |-> Concatenar(dfs_peatones)]
    /\ UNCHANGED <<stage, archivos_peatones, n_peaton, dfs_peatones, gapVars, crossVars,
                   homVars, fiVars, priVars, runVars, sesVars, normVars>>

PeatonesNext == ProcesarArchivoPeatones \/ GuardarReportePeatones

SpecPeatones == PeatonesInit /\ [][PeatonesNext]_vars

\* The identifying key of a row of the pedestrian report
ClavePeaton(r) ==
    <<r.PC, r.FECHA, r.HORA_INICIO, r.HORA_TERMINO, r.MOVIMIENTO, r.CUARTO>>

\* The rows of the files that were read without an exception, in file order
\* and, within a file, in row order
OriginalesPeatones ==
    {<<a, k>> : a \in 1..Len(archivos_peatones), k \in 1..MaxFilasPeaton + 1} \cap
    {p \in (1..Len(archivos_peatones)) \X (1..MaxFilasPeaton + 1) :
        /\ p[2] <= Len(archivos_peatones[p[1]])
        /\ procesar_datos_peatones(archivos_peatones[p[1]]).ok}

ClaveOriginal(p) == ClavePeaton(CamposPeaton(archivos_peatones[p[1]][p[2]], p[2]))

Anterior(p, q) == p[1] < q[1] \/ (p[1] = q[1] /\ p[2] <= q[2])

\* C23: the pedestrian report, built from any number of files, has at most one
\* row per identifying key (control point, date, start, end, movement,
\* quarter), and the row it has is the first one with that key in the
\* original order of the files and their rows.
C23_UnaFilaPorClave ==
    (stage = "peatones" /\ reporte_peatones.written) =>
        \A p \in OriginalesPeatones :
            LET iguales  == {q \in OriginalesPeatones : ClaveOriginal(q) = ClaveOriginal(p)}
                primera  == CHOOSE q \in iguales : \A o \in iguales : Anterior(q, o)
                enReporte == {k \in 1..Len(reporte_peatones.rows) :
                                 ClavePeaton(reporte_peatones.rows[k].fila) = ClaveOriginal(p)}
            IN  /\ Cardinality(enReporte) = 1
                /\ \A k \in enReporte :
                      /\ reporte_peatones.rows[k].archivo = primera[1]
                      /\ reporte_peatones.rows[k].fila.idx = primera[2]

-----------------------------------------------------------------------------
(* main.py and app.py : one run of the four stages.
   A stage is taken by what its main does with the template and the folders;
   a folder of day-files that exists holds day-files that can be processed. *)

scripts == <<"interp_tricycles.py", "merge_cl_comp.py", "merge_cl_ph.py", "homologate.py">>

CarpetaFilipinas == "Multisource Categoria Filipinas"
CarpetaChile     == "Multisource Categoria Chile"
CarpetaPlantilla == "Plantilla"

\* What Plantilla/plantilla_peru.xlsx holds: the three sheets; the first two
\* without the third one or without its columns punto_control and fecha_hora;
\* a file no sheet of which can be read; no file
Plantillas == {"completa", "sin_anclas", "ilegible", "falta"}

\* interp_tricycles.py lines 238-270: cargar_configuracion_fechas succeeds
AnclasLegibles(pl)  == pl = "completa"
\* homologate.py lines 40-81: the two mapping sheets can be loaded
MapeosLegibles(pl)  == pl \in {"completa", "sin_anclas"}

\* What the main of a stage does: it raises or returns, and the output
\* folders that hold a file afterwards
Resultado(exc, arch) == [excepcion |-> exc, archivos |-> arch]

\* interp_tricycles.py lines 383-442
main_interp_tricycles(pl, carp, arch) ==
    IF ~AnclasLegibles(pl) THEN Resultado(FALSE, arch)
    ELSE IF CarpetaFilipinas \notin carp THEN Resultado(TRUE, arch)
    ELSE Resultado(FALSE, arch \cup {"data_filipinas"})

\* merge_cl_comp.py lines 190-251
main_merge_cl_comp(pl, carp, arch) ==
    IF CarpetaChile \notin carp THEN Resultado(TRUE, arch)
    ELSE Resultado(FALSE, arch \cup {"data_chile"})

\* merge_cl_ph.py lines 164-238
main_merge_cl_ph(pl, carp, arch) ==
    IF "data_chile" \notin arch THEN Resultado(FALSE, arch)
    ELSE Resultado(FALSE, arch \cup {"data_merged_cl_fi"})

\* homologate.py lines 225-285, and lines 92-95 and 221-223 of procesar_datos
main_homologate(pl, carp, arch) ==
    IF "data_merged_cl_fi" \notin arch THEN Resultado(FALSE, arch)
    ELSE IF ~MapeosLegibles(pl) THEN Resultado(FALSE, arch)
    ELSE Resultado(FALSE, arch \cup {"data_peru_final"})

EjecutarMain(script, pl, carp, arch) ==
    CASE script = "interp_tricycles.py" -> main_interp_tricycles(pl, carp, arch)
      [] script = "merge_cl_comp.py"    -> main_merge_cl_comp(pl, carp, arch)
      [] script = "merge_cl_ph.py"      -> main_merge_cl_ph(pl, carp, arch)
      [] OTHER                          -> main_homologate(pl, carp, arch)

\* main.py lines 37-60
verificar_estructura(pl, carp) ==
    /\ CarpetaChile \in carp
    /\ CarpetaPlantilla \in carp
    /\ pl # "falta"

\* main.py is started in any folder; app.py lines 24-39 and 154-210 make the
\* folders of the session and save the template when one was sent
CorridaInit ==
    /\ stage = "corrida"
    /\ orquestador \in {"main.py", "app.py"}
    /\ plantilla \in Plantillas
    /\ carpetas \in SUBSET {CarpetaFilipinas, CarpetaChile, CarpetaPlantilla}
    /\ orquestador = "app.py" =>
           carpetas = {CarpetaFilipinas, CarpetaChile, CarpetaPlantilla}
    /\ CarpetaPlantilla \notin carpetas => plantilla = "falta"
    /\ iniciadas = <<>>
    /\ archivos_corrida = {}
    /\ corrida = "inicio"
    /\ GapIdle /\ CrossIdle /\ HomIdle /\ PriIdle /\ PeaIdle /\ SesIdle /\ NormIdle
    /\ TIPO_MUESTREO = "CADA_HORA" /\ MINUTOS_MUESTREO = 5
    /\ config = NoConfig /\ locales = NoLocales
    /\ fecha_inicio_mapping = <<>> /\ archivos_excel = <<>> /\ n_archivo = 0
    /\ mapeo_fecha_especifica = <<>> /\ df_procesado = NoProcesado /\ rama = Idle
    /\ data_filipinas = <<>> /\ fpc = Idle

\* main.py lines 66-82; app.py lines 94-104
IniciarCorrida ==
    /\ stage = "corrida"
    /\ corrida = "inicio"
    /\ corrida' = IF orquestador = "main.py" /\ ~verificar_estructura(plantilla, carpetas)
                  THEN "estructura" ELSE "entre_etapas"
    /\ UNCHANGED <<stage, orquestador, plantilla, carpetas, iniciadas, archivos_corrida,
                   gapVars, crossVars, homVars, fiVars, priVars, peaVars, sesVars, normVars>>

\* main.py lines 24-30 and 85-86; app.py lines 108-111: the next stage starts
IniciarEtapa ==
    /\ stage = "corrida"
    /\ corrida = "entre_etapas"
    /\ Len(iniciadas) < Len(scripts)
    /\ iniciadas' = Append(iniciadas, scripts[Len(iniciadas) + 1])
    /\ corrida' = "en_etapa"
    /\ UNCHANGED <<stage, orquestador, plantilla, carpetas, archivos_corrida,
                   gapVars, crossVars, homVars, fiVars, priVars, peaVars, sesVars, normVars>>

\* the main of the stage runs to its end; main.py lines 31-35 and 86-88: a
\* non-zero exit stops the sequence; app.py lines 106-122: the exception
\* leaves process_files
TerminarEtapa ==
    /\ stage = "corrida"
    /\ corrida = "en_etapa"
    /\ LET r == EjecutarMain(iniciadas[Len(iniciadas)], plantilla, carpetas, archivos_corrida)
       IN  /\ archivos_corrida' = r.archivos
           /\ corrida' = IF ~r.excepcion THEN "entre_etapas"
                         ELSE IF orquestador = "main.py" THEN "detenida" ELSE "error"
    /\ UNCHANGED <<stage, orquestador, plantilla, carpetas, iniciadas,
                   gapVars, crossVars, homVars, fiVars, priVars, peaVars, sesVars, normVars>>

\* main.py line 90; app.py lines 113-118 and 213-221
TerminarCorrida ==
    /\ stage = "corrida"
    /\ corrida = "entre_etapas"
    /\ Len(iniciadas) = Len(scripts)
    /\ corrida' = IF orquestador = "app.py" /\ "data_peru_final" \notin archivos_corrida
                  THEN "error" ELSE "exitosa"
    /\ UNCHANGED <<stage, orquestador, plantilla, carpetas, iniciadas, archivos_corrida,
                   gapVars, crossVars, homVars, fiVars, priVars, peaVars, sesVars, normVars>>

CorridaNext == IniciarCorrida \/ IniciarEtapa \/ TerminarEtapa \/ TerminarCorrida

SpecCorrida == CorridaInit /\ [][CorridaNext]_vars

\* C24: when the template cannot be read, or lacks the anchor table or its
\* columns, at the first stage, the run aborts: no later stage is started, no
\* final report is produced and the run is not reported successful; and in
\* main.py no stage is started after one that failed.
C24_FatalDetieneLaCorrida ==
    stage = "corrida" =>
        /\ (Len(iniciadas) >= 1 /\ ~AnclasLegibles(plantilla)) =>
               /\ Len(iniciadas) = 1
               /\ "data_peru_final" \notin archivos_corrida
               /\ corrida # "exitosa"
        /\ corrida = "detenida" => ~ENABLED IniciarEtapa

-----------------------------------------------------------------------------
(* The output paths of the per-file tasks of a stage *)

\* C25: every output path is written at most once: no two day-files of the
\* stage (two base files of one numbered day folder included) are written to
\* the same path.
C25_UnaEscrituraPorRuta ==
    stage = "principales" =>
        \A i, j \in 1..Len(archivos_salida) :
            i # j => archivos_salida[i].ruta # archivos_salida[j].ruta

-----------------------------------------------------------------------------
(* homologate.py : completed day-files one of which cannot be parsed *)

FilasValidas ==
    {HomRow(Txt(0, pc, 0), Txt(0, i, 0), Txt(0, Mov1, 0), [c \in {ColCAR} |-> 1]) :
        pc \in {PC1, PC2}, i \in {Int1, Int2}}

FilaMalformada ==
    HomRow(Txt(0, PC1, 0), Txt(0, IntMalo, 0), Txt(0, Mov1, 0), [c \in {ColCAR} |-> 1])

\* A day-file of one row, which may have a malformed interval, or of two
\* rows that can be parsed
ArchivosAislamiento ==
    {<<r>> : r \in FilasValidas \cup {FilaMalformada}}
        \cup {<<r, s>> : r \in FilasValidas, s \in FilasValidas}

AislamientoInit ==
    /\ stage = "aislamiento"
    /\ mapeo_tabla = <<[entrada |-> ColCAR, salida |-> SalAUTO]>>
    /\ dfs \in UNION {[1..n -> ArchivosAislamiento] : n \in 1..MaxArchivos}
    /\ df_combined = <<>>
    /\ reporte = NoReporte
    /\ hpc = "load"
    /\ GapIdle /\ CrossIdle /\ FiIdle

SpecAislamiento == AislamientoInit /\ [][HomNext]_vars

\* every row of the day-file can be parsed
Parseable(file) == \A i \in 1..Len(file) : IntervaloValido(file[i].INTERVALO)

\* the identifying key of a row of a day-file, and the keys of the report
ClaveDeFila(r) ==
    ClaveIdentificadora(ConCamposDerivados(
        [idx |-> 0, FUENTE |-> r.FUENTE, INTERVALO |-> r.INTERVALO,
         MOVIMIENTO |-> r.MOVIMIENTO, cols |-> r.cols]))

ClavesDelReporte ==
    {<<reporte.rows[k].PC, reporte.rows[k].FECHA, reporte.rows[k].HORA_INICIO,
       reporte.rows[k].HORA_TERMINO, reporte.rows[k].MOVIMIENTO, reporte.rows[k].CUARTO>> :
        k \in 1..Len(reporte.rows)}

\* C26: a day-file that cannot be parsed (a row with a malformed interval) is
\* skipped alone: once the Homologator has ended, the report is written and
\* holds the observations of every day-file that can be parsed.
C26_AislamientoPorArchivo ==
    (stage = "aislamiento" /\ hpc = "done") =>
        \A a \in 1..Len(dfs) :
            Parseable(dfs[a]) =>
                /\ reporte.written
                /\ \A i \in 1..Len(dfs[a]) : ClaveDeFila(dfs[a][i]) \in ClavesDelReporte

-----------------------------------------------------------------------------
(* homologate.py : what the removal of duplicates leaves of each key *)

\* C27: the removal of duplicates never loses an observation entirely: of
\* every identifying key carried by two or more rows exactly one row is in
\* the report, also when the key has a missing component (no control point).
C27_QuedaUnaPorClave ==
    (HomTerminado /\ reporte.ok) =>
        \A i \in 1..Len(df_combined) :
            Cardinality(GrupoDe(i)) >= 2
                => Cardinality(GrupoDe(i) \cap Conservadas) = 1

-----------------------------------------------------------------------------
(* interp_tricycles.py : the hour each record of a group is filed under *)

\* C28: under the hourly cadence each record of a group gets an hour of its
\* own, the k-th record in interval order the k-th hour of the day, whatever
\* the index labels of its rows: as many hours have a count at minute 0 as the
\* group has records (every record counts one tricycle or more), and the
\* first bucket of the k-th hour holds three times the count of the k-th
\* record.
C28_UnRegistroPorHora ==
    (Interpolado /\ rama = "horarios") =>
        \A g \in Grupos(df_procesado.rows) :
            LET rows == df_procesado.rows
                ps   == PosicionesOrdenadas(rows, PosicionesDe(rows, g[1], g[2]))
                rs   == RegistrosDelGrupo(data_filipinas[n_archivo].rows, g)
            IN  /\ Cardinality({h \in 0..23 : rs[4 * h + 1].TRICYCLE # 0}) = Len(ps)
                /\ \A k \in 1..Len(ps) :
                      rs[4 * (k - 1) + 1].TRICYCLE = 3 * rows[ps[k]].veh[ColTricycle]

-----------------------------------------------------------------------------
(* app.py : two upload sessions served by threads of the one server process.
   A directory is the sequence of the names on its absolute path from the
   directory the server was started in, which is <<>>. *)

Sesiones == {"A", "B"}

\* app.py lines 26 and 94: os.path.join(UPLOAD_FOLDER, session_id), a relative
\* path, resolved against the working directory d at the time of its use
base_path(d, s) == d \o <<"uploads", s>>

Bajo(d, raiz) == Len(d) >= Len(raiz) /\ SubSeq(d, 1, Len(raiz)) = raiz

SesionNueva == [pc |-> "crear", original_dir |-> <<>>, etapas |-> 0, accesos |-> {}]

SesionesInit ==
    /\ stage = "sesiones"
    /\ cwd = <<>>
    /\ directorios = {<<>>}
    /\ sesiones = [s \in Sesiones |-> SesionNueva]
    /\ GapIdle /\ CrossIdle /\ HomIdle /\ PriIdle /\ PeaIdle /\ RunIdle /\ NormIdle
    /\ TIPO_MUESTREO = "CADA_HORA" /\ MINUTOS_MUESTREO = 5
    /\ config = NoConfig /\ locales = NoLocales
    /\ fecha_inicio_mapping = <<>> /\ archivos_excel = <<>> /\ n_archivo = 0
    /\ mapeo_fecha_especifica = <<>> /\ df_procesado = NoProcesado /\ rama = Idle
    /\ data_filipinas = <<>> /\ fpc = Idle

SesUnchanged ==
    UNCHANGED <<stage, gapVars, crossVars, homVars, fiVars, priVars, peaVars, runVars, normVars>>

\* upload_files, lines 156-157: create_processing_structure makes the folders
\* of the session under the working directory
CrearEstructura(s) ==
    /\ stage = "sesiones"
    /\ sesiones[s].pc = "crear"
    /\ directorios' = directorios \cup {base_path(cwd, s)}
    /\ sesiones' = [sesiones EXCEPT ![s].pc = "guardar"]
    /\ UNCHANGED cwd
    /\ SesUnchanged

\* upload_files, lines 159-210: config.json and the uploaded files are saved
\* under base_path; a folder that is not there ends the request with an error
GuardarArchivos(s) ==
    /\ stage = "sesiones"
    /\ sesiones[s].pc = "guardar"
    /\ sesiones' = [sesiones EXCEPT ![s].pc =
                       IF base_path(cwd, s) \in directorios THEN "getcwd" ELSE "error"]
    /\ UNCHANGED <<cwd, directorios>>
    /\ SesUnchanged

\* process_files, line 103
ObtenerDirectorio(s) ==
    /\ stage = "sesiones"
    /\ sesiones[s].pc = "getcwd"
    /\ sesiones' = [sesiones EXCEPT ![s].original_dir = cwd, ![s].pc = "chdir"]
    /\ UNCHANGED <<cwd, directorios>>
    /\ SesUnchanged

\* process_files, line 104: os.chdir(base_path), outside the try: when the
\* folder is not there the exception leaves the function at once
CambiarDirectorio(s) ==
    /\ stage = "sesiones"
    /\ sesiones[s].pc = "chdir"
    /\ IF base_path(cwd, s) \in directorios
       THEN /\ cwd' = base_path(cwd, s)
            /\ sesiones' = [sesiones EXCEPT ![s].pc = "etapas"]
       ELSE /\ cwd' = cwd
            /\ sesiones' = [sesiones EXCEPT ![s].pc = "error"]
    /\ UNCHANGED directorios
    /\ SesUnchanged

\* process_files, lines 108-111: the main of the next stage; it makes its
\* output folder and reads and writes by paths relative to the working
\* directory
EjecutarEtapaDeSesion(s) ==
    /\ stage = "sesiones"
    /\ sesiones[s].pc = "etapas"
    /\ sesiones[s].etapas < Len(scripts)
    /\ sesiones' = [sesiones EXCEPT ![s].etapas = @ + 1, ![s].accesos = @ \cup {cwd}]
    /\ UNCHANGED <<cwd, directorios>>
    /\ SesUnchanged

\* process_files, lines 113-122: the result, and the finally clause
RestaurarDirectorio(s) ==
    /\ stage = "sesiones"
    /\ sesiones[s].pc = "etapas"
    /\ sesiones[s].etapas = Len(scripts)
    /\ cwd' = sesiones[s].original_dir
    /\ sesiones' = [sesiones EXCEPT ![s].pc = "fin"]
    /\ UNCHANGED directorios
    /\ SesUnchanged

SesionesNext ==
    \E s \in Sesiones :
        \/ CrearEstructura(s)
        \/ GuardarArchivos(s)
        \/ ObtenerDirectorio(s)
        \/ CambiarDirectorio(s)
        \/ EjecutarEtapaDeSesion(s)
        \/ RestaurarDirectorio(s)

SpecSesiones == SesionesInit /\ [][SesionesNext]_vars

\* C29: two runs served at the same time do not interfere: every stage of a
\* session reads and writes under the directory of its own session only, and
\* once no run is inside process_files the working directory of the process
\* is the one it had before the runs.
C29_SesionesAisladas ==
    stage = "sesiones" =>
        /\ \A s \in Sesiones : \A d \in sesiones[s].accesos : Bajo(d, <<"uploads", s>>)
        /\ (\A s \in Sesiones : sesiones[s].pc \in {"crear", "guardar", "getcwd", "fin", "error"})
               => cwd = <<>>

-----------------------------------------------------------------------------
(* normalizar_texto of the five modules, on texts given as their characters *)

Modulos == {"interp_tricycles", "merge_cl_comp", "merge_cl_ph", "homologate",
            "homologate_pedestrians"}

\* interp_tricycles.py lines 32-39 and merge_cl_comp.py lines 21-28
equivalencias ==
    {
     [clave |-> <<"p", "r", "o", "j", "e", "c", "t">>,
      valor |-> <<"p", "r", "o", "y", "e", "c", "t", "o">>],
     [clave |-> <<"l", "o", "c", "a", "t", "i", "o", "n">>,
      valor |-> <<"l", "o", "c", "a", "l", "i", "z", "a", "c", "i", "o", "n">>],
     [clave |-> <<"d", "a", "t", "a", " ", "s", "o", "u", "r", "c", "e">>,
      valor |-> <<"f", "u", "e", "n", "t", "e", " ", "d", "e", " ", "d", "a", "t", "o", "s">>],
     [clave |-> <<"g", "e", "o", "l", "o", "c", "a", "t", "i", "o", "n">>,
      valor |-> <<"g", "e", "o", "l", "o", "c", "a", "l", "i", "z", "a", "c", "i", "o", "n">>],
     [clave |-> <<"i", "n", "t", "e", "r", "v", "a", "l">>,
      valor |-> <<"i", "n", "t", "e", "r", "v", "a", "l", "o">>],
     [clave |-> <<"m", "o", "v", "e", "m", "e", "n", "t">>,
      valor |-> <<"m", "o", "v", "i", "m", "i", "e", "n", "t", "o">>]}

\* homologate_pedestrians.py lines 18-26
equivalencias_peatones ==
    equivalencias \cup
        {[clave |-> <<"p", "e", "r", "s", "o", "n">>,
          valor |-> <<"p", "e", "r", "s", "o", "n", "a">>]}

\* dict.get(texto_normalizado, texto_normalizado)
Equivalente(tabla, s) ==
    IF \E e \in tabla : e.clave = s THEN (CHOOSE e \in tabla : e.clave = s).valor ELSE s

\* interp_tricycles.py lines 23-48
normalizar_texto_interp(s) ==
    LET texto_normalizado ==
            QuitarBlancosDer(QuitarBlancosIzq([k \in 1..Len(s) |-> Minuscula(SinTilde(s[k]))]))
    IN  Equivalente(equivalencias, texto_normalizado)

\* merge_cl_comp.py lines 12-38
normalizar_texto_comp(s) ==
    LET texto_normalizado ==
            QuitarBlancosDer(QuitarBlancosIzq([k \in 1..Len(s) |-> Minuscula(SinTilde(s[k]))]))
    IN  Equivalente(equivalencias, texto_normalizado)

\* merge_cl_ph.py lines 12-22
normalizar_texto_ph(s) ==
    LET texto_normalizado == [k \in 1..Len(s) |-> SinTilde(s[k])]
    IN  QuitarBlancosDer(QuitarBlancosIzq(
            [k \in 1..Len(s) |-> Minuscula(texto_normalizado[k])]))

\* homologate_pedestrians.py lines 9-35
normalizar_texto_peatones(s) ==
    LET texto_normalizado ==
            QuitarBlancosDer(QuitarBlancosIzq([k \in 1..Len(s) |-> Minuscula(SinTilde(s[k]))]))
    IN  Equivalente(equivalencias_peatones, texto_normalizado)

NormalizarEn(m, s) ==
    CASE m = "interp_tricycles"       -> normalizar_texto_interp(s)
      [] m = "merge_cl_comp"          -> normalizar_texto_comp(s)
      [] m = "merge_cl_ph"            -> normalizar_texto_ph(s)
      [] m = "homologate"             -> normalizar_texto(s)
      [] OTHER                        -> normalizar_texto_peatones(s)

\* Column names in both languages, in several spellings, and every short text
\* of capitals, accented letters and blanks
TextosConNombre ==
    {<<"D", "a", "t", "a", " ", "S", "o", "u", "r", "c", "e">>,
     <<"F", "u", "e", "n", "t", "e", " ", "d", "e", " ", "D", "a", "t", "o", "s">>,
     <<" ", "I", "N", "T", "E", "R", "V", "A", "L", " ">>,
     <<"i", "n", "t", "e", "r", "v", "a^", "l">>,
     <<"i", "n", "t", "e", "r", "v", "a", "l", "o">>,
     <<"P", "e", "r", "s", "o", "n">>,
     <<"p", "e", "r", "s", "o", "n", "a">>,
     <<"M", "o", "v", "e", "m", "e", "n", "t">>}

Textos == TextosConNombre \cup SeqsUpTo({"A", "a^", " ", "n"}, MaxTexto)

NormalizarInit ==
    /\ stage = "normalizar"
    /\ texto \in Textos
    /\ canonico = [veces |-> 0, primera |-> [m \in Modulos |-> <<>>],
                   segunda |-> [m \in Modulos |-> <<>>]]
    /\ GapIdle /\ CrossIdle /\ HomIdle /\ PriIdle /\ PeaIdle /\ RunIdle /\ SesIdle
    /\ TIPO_MUESTREO = "CADA_HORA" /\ MINUTOS_MUESTREO = 5
    /\ config = NoConfig /\ locales = NoLocales
    /\ fecha_inicio_mapping = <<>> /\ archivos_excel = <<>> /\ n_archivo = 0
    /\ mapeo_fecha_especifica = <<>> /\ df_procesado = NoProcesado /\ rama = Idle
    /\ data_filipinas = <<>> /\ fpc = Idle

\* every module normalises the text
NormalizarTexto ==
    /\ stage = "normalizar"
    /\ canonico.veces = 0
    /\ canonico' = [canonico EXCEPT !.veces = 1,
                                    !.primera = [m \in Modulos |-> NormalizarEn(m, texto)]]
    /\ UNCHANGED <<stage, texto, gapVars, crossVars, homVars, fiVars, priVars, peaVars,
                   runVars, sesVars>>

\* every module normalises what it returned
NormalizarCanonico ==
    /\ stage = "normalizar"
    /\ canonico.veces = 1
    /\ canonico' = [canonico EXCEPT !.veces = 2,
                                    !.segunda = [m \in Modulos |->
                                                    NormalizarEn(m, canonico.primera[m])]]
    /\ UNCHANGED <<stage, texto, gapVars, crossVars, homVars, fiVars, priVars, peaVars,
                   runVars, sesVars>>

NormalizarNext == NormalizarTexto \/ NormalizarCanonico

SpecNormalizar == NormalizarInit /\ [][NormalizarNext]_vars

\* C30: normalizar_texto is one primitive: for every text the five modules
\* return the same canonical value (so 'Data Source' and 'Fuente de Datos'
\* both give 'fuente de datos' everywhere), and normalising a canonical value
\* again returns it unchanged.
C30_UnaSolaPrimitiva ==
    stage = "normalizar" =>
        /\ canonico.veces >= 1 =>
               \A m, n \in Modulos : canonico.primera[m] = canonico.primera[n]
        /\ canonico.veces = 2 =>
               \A m \in Modulos : canonico.segunda[m] = canonico.primera[m]

=============================================================================
